---------------------------- MODULE Spec2Model ----------------------------
(***************************************************************************)
(* A model of pynasparser's AX_Extract (src/src/pynasparser/               *)
(* py_nas_parser.py): the static helpers as operators on character         *)
(* sequences, and the construction sequence __post_init__ as a state       *)
(* machine with one action per step.                                       *)
(*                                                                         *)
(* Strings are sequences of one-character strings, so that startswith,     *)
(* replace, split and the regular expression are computed as Python        *)
(* computes them.                                                          *)
(***************************************************************************)
EXTENDS Integers, Sequences, FiniteSets, TLC

VARIABLES
    doc,                    \* the document the caller passed (never changed)
    pc,                     \* the step of __post_init__ about to run
    error,                  \* the exception that ended construction, or NoError
    xml_bytes,              \* the raw document, None once released
    namespaces,             \* prefix -> URI mapping
    xml_root,               \* the parsed tree (mutated by the sanitizer)
    crs_name,
    current_crs,
    gdf_buf,                \* the interim geometry table
    ax_flurstueck,
    ax_person,
    ax_buchungsblattbezirk,
    ax_buchungsblatt,
    ax_anschrift,
    ax_namensnummer,
    ax_buchungsstelle,
    h_fn,                   \* helper under test (helper specification only)
    h_arg,                  \* its argument
    h_ret                   \* the results of its successive applications

tables == <<ax_flurstueck, ax_person, ax_buchungsblattbezirk, ax_buchungsblatt,
            ax_anschrift, ax_namensnummer, ax_buchungsstelle>>
ctor_vars == <<doc, pc, error, xml_bytes, namespaces, xml_root, crs_name,
               current_crs, gdf_buf, tables>>
helper_vars == <<h_fn, h_arg, h_ret>>
vars == <<ctor_vars, helper_vars>>

---------------------------------------------------------------------------
(* Python values *)

\* Python's None: distinct from every string, since no character of a
\* string is the four-letter "None".
None == <<"None">>

\* An attribute or field that has not been assigned yet.
Unset == <<"Unset">>

RECURSIVE Flatten(_)
\* The concatenation of a sequence of strings.
Flatten(ss) == IF ss = <<>> THEN <<>> ELSE Head(ss) \o Flatten(Tail(ss))

\* str.startswith
StartsWith(s, p) == Len(s) >= Len(p) /\ SubSeq(s, 1, Len(p)) = p

RECURSIVE StrReplace(_, _, _)
\* str.replace(old, new) for a non-empty old: every non-overlapping
\* occurrence, scanning from the left.
StrReplace(s, old, new) ==
    IF Len(s) = 0 THEN <<>>
    ELSE IF StartsWith(s, old)
         THEN new \o StrReplace(SubSeq(s, Len(old) + 1, Len(s)), old, new)
         ELSE <<Head(s)>> \o StrReplace(Tail(s), old, new)

\* Whether sub occurs in s as a contiguous run.
Contains(s, sub) ==
    \E i \in 0..(Len(s) - Len(sub)) : SubSeq(s, i + 1, i + Len(sub)) = sub

ID_NAMESPACE == <<"u","r","n",":","a","d","v",":","o","i","d",":">>
CRS_NAMESPACE == <<"u","r","n",":","a","d","v",":","c","r","s",":">>

remove_gml_id_prefix(string) ==
    IF StartsWith(string, ID_NAMESPACE)
    THEN StrReplace(string, ID_NAMESPACE, <<>>)
    ELSE string

remove_crs_prefix(string) ==
    IF StartsWith(string, CRS_NAMESPACE)
    THEN StrReplace(string, CRS_NAMESPACE, <<>>)
    ELSE string

---------------------------------------------------------------------------
(* format_crs_name *)

Digit == {"0","1","2","3","4","5","6","7","8","9"}

\* re.IGNORECASE on the letters of the pattern.
Fold(c) ==
    CASE c = "E" -> "e" [] c = "T" -> "t" [] c = "R" -> "r" [] c = "S" -> "s"
      [] c = "U" -> "u" [] c = "M" -> "m" [] OTHER -> c

CrsPatternHead == <<"e","t","r","s","8","9","_","u","t","m">>

RECURSIVE LeadingDigits(_)
\* The length of the longest run of digits at the start of s: (\d+), greedy.
LeadingDigits(s) ==
    IF s # <<>> /\ Head(s) \in Digit THEN 1 + LeadingDigits(Tail(s)) ELSE 0

\* pattern.match(crs_string) for ^ETRS89_UTM(\d+)$ with re.IGNORECASE: the
\* group, or None. Python's $ matches at the end of the string and also just
\* before a newline that ends the string.
CrsMatch(s) ==
    LET h == Len(CrsPatternHead)
        rest == SubSeq(s, h + 1, Len(s))
        k == LeadingDigits(rest)
        after == SubSeq(rest, k + 1, Len(rest))
    IN  IF /\ Len(s) >= h
           /\ \A i \in 1..h : Fold(s[i]) = CrsPatternHead[i]
           /\ k >= 1
           /\ after \in {<<>>, <<"\n">>}
        THEN SubSeq(rest, 1, k)
        ELSE None

RECURSIVE Escaped(_)
\* The escapes of repr() on the characters in use: a newline is written as
\* a backslash and an n, a backslash doubled.
Escaped(s) ==
    IF s = <<>> THEN <<>>
    ELSE (CASE Head(s) = "\n" -> <<"\\", "n">>
            [] Head(s) = "\\" -> <<"\\", "\\">>
            [] OTHER -> <<Head(s)>>) \o Escaped(Tail(s))

\* repr(str) for a string without quote characters.
Repr(s) == <<"'">> \o Escaped(s) \o <<"'">>

\* An exception that propagates: its class and its message.
Raise(exc, msg) == [ok |-> FALSE, exc |-> exc, msg |-> msg]
ValueError(msg) == Raise("ValueError", msg)
NoError == [ok |-> TRUE]
Returned(v) == [ok |-> TRUE, value |-> v]

\* The fixed parts of a message are kept as whole strings, the formatted
\* argument character by character.
format_crs_name(crs_string) ==
    LET zone == CrsMatch(crs_string)
    IN  IF zone = None
        THEN ValueError(<<"String ">> \o Repr(crs_string)
               \o <<" is not in the expected format 'ETRS89_UTM<number>'">>)
        ELSE Returned(<<"E","T","R","S","8","9"," ","/"," ","U","T","M"," ",
                        "z","o","n","e"," ">> \o zone \o <<"N">>)

---------------------------------------------------------------------------
(* The element tree (lxml) *)

\* An element is [tag, attrib, text, children, nid]: tag is a qualified name
\* [ns, name], attrib a function from attribute names in Clark notation to
\* values, text a string or None, children the child elements in document
\* order, nid the identity of the node (two nodes may be equal in content).

GML_NS == "http://www.opengis.net/gml/3.2"
WFS_NS == "http://www.opengis.net/wfs/2.0"
XLINK_NS == "http://www.w3.org/1999/xlink"
AX_7_1 == "http://www.adv-online.de/namespaces/adv/gid/7.1"
AX_6_0 == "http://www.adv-online.de/namespaces/adv/gid/6.0"

GML_ID == "{http://www.opengis.net/gml/3.2}id"
XLINK_HREF == "{http://www.w3.org/1999/xlink}href"
XLINK_TITLE == "{http://www.w3.org/1999/xlink}title"

MapSeq(s, F(_)) == SubSeq([i \in 1..Len(s) |-> F(s[i])], 1, Len(s))

\* A path step "prefix:name" resolved with the namespace mapping.
QName(step, ns) == [ns |-> ns[step[1]], name |-> step[2]]

\* element.attrib.get(name) / element.get(name)
AttribGet(el, name) ==
    IF name \in DOMAIN el.attrib THEN el.attrib[name] ELSE None

RECURSIVE Descendants(_)
\* The descendants of el in document order.
Descendants(el) ==
    Flatten(MapSeq(el.children, LAMBDA c : <<c>> \o Descendants(c)))

RECURSIVE iterfind(_, _, _)
\* The elements reached from el by a path of child steps, in document order.
iterfind(el, path, ns) ==
    IF path = <<>> THEN <<el>>
    ELSE Flatten(MapSeq(
             SelectSeq(el.children, LAMBDA c : c.tag = QName(Head(path), ns)),
             LAMBDA c : iterfind(c, Tail(path), ns)))

\* Element.find(path): the first match, or NoElement (Python's None).
NoElement == [tag |-> "NoElement"]
find(el, path, ns) ==
    LET m == iterfind(el, path, ns)
    IN  IF m = <<>> THEN NoElement ELSE m[1]

\* Element.findtext(path): None without a match, '' for a match without text.
findtext(el, path, ns) ==
    LET e == find(el, path, ns)
    IN  IF e = NoElement THEN None
        ELSE IF e.text = None THEN <<>> ELSE e.text

\* ".//a/b": the path from el or any descendant of it.
iterfind_descendant(el, path, ns) ==
    Flatten(MapSeq(<<el>> \o Descendants(el),
                   LAMBDA d : iterfind(d, path, ns)))

\* root.xpath("//a/b"): the first step matches any element of the document.
xpath(root, path, ns) ==
    Flatten(MapSeq(
        SelectSeq(<<root>> \o Descendants(root),
                  LAMBDA d : d.tag = QName(Head(path), ns)),
        LAMBDA d : iterfind(d, Tail(path), ns)))

\* The matches, or None without any. None is kept as the empty list here:
\* every caller tests the result for truth only ("if not elements").
find_elements(root, path, ns) == xpath(root, path, ns)

find_attr(element, path, attr, ns) ==
    LET el == find(element, path, ns)
    IN  IF el # NoElement THEN AttribGet(el, attr) ELSE None

RECURSIVE RemoveNode(_, _)
\* parent.remove(member): the tree without the node of identity nid.
RemoveNode(el, nid) ==
    [el EXCEPT !.children =
        MapSeq(SelectSeq(el.children, LAMBDA c : c.nid # nid),
               LAMBDA c : RemoveNode(c, nid))]

---------------------------------------------------------------------------
(* get_namespaces *)

RECURSIVE DictOf(_)
\* dict(pairs): a later pair replaces an earlier one with the same key.
DictOf(pairs) ==
    IF pairs = <<>> THEN <<>>
    ELSE LET init == DictOf(SubSeq(pairs, 1, Len(pairs) - 1))
             last == pairs[Len(pairs)]
         IN  (last[1] :> last[2]) @@ init

target_ax_uri_list == {AX_7_1, AX_6_0}

RECURSIVE AliasPrefixed(_, _)
\* for prefix, uri in list(namespaces.items()): a matching uri is written to
\* "ax"; items are visited in insertion order.
AliasPrefixed(items, ns) ==
    IF items = <<>> THEN ns
    ELSE AliasPrefixed(Tail(items),
            IF Head(items)[2] \in target_ax_uri_list
            THEN ("ax" :> Head(items)[2]) @@ ns
            ELSE ns)

\* The keys of dict(pairs) in insertion order (the first occurrence of a key
\* fixes its place).
RECURSIVE InsertionOrder(_, _)
InsertionOrder(pairs, seen) ==
    IF pairs = <<>> THEN <<>>
    ELSE IF Head(pairs)[1] \in seen THEN InsertionOrder(Tail(pairs), seen)
    ELSE <<Head(pairs)[1]>>
            \o InsertionOrder(Tail(pairs), seen \cup {Head(pairs)[1]})

\* start_ns: the (prefix, uri) pairs of the start-ns events, in document order.
get_namespaces(start_ns) ==
    LET raw_namespaces == DictOf(start_ns)
        keys == SelectSeq(InsertionOrder(start_ns, {}), LAMBDA k : k # "")
        namespaces0 == [k \in {keys[i] : i \in 1..Len(keys)} |->
                            raw_namespaces[k]]
        namespaces1 ==
            IF "" \in DOMAIN raw_namespaces
               /\ raw_namespaces[""] \in target_ax_uri_list
            THEN ("ax" :> raw_namespaces[""]) @@ namespaces0
            ELSE namespaces0
        items == MapSeq(keys, LAMBDA k : <<k, namespaces1[k]>>)
                   \o (IF "ax" \in DOMAIN namespaces1
                          /\ "ax" \notin DOMAIN namespaces0
                       THEN <<<<"ax", namespaces1["ax"]>>>> ELSE <<>>)
    IN  AliasPrefixed(items, namespaces1)

---------------------------------------------------------------------------
(* get_aa_lebenszeitintervall_beginnt *)

\* A timestamp text is kept as the sequence of its lexical items (a date, the
\* separator, a time of day, an offset), each item standing for its
\* characters; "Z" is the one item that holds the character Z.
IsoDates == {"2024-10-27"}
IsoTimes == {"12:34:56"}
IsoOffsets == {"+00:00", "+01:00"}

\* A datetime.datetime value: its date, time of day and UTC offset.
datetime(date, time, utcoffset) == <<"datetime", date, time, utcoffset>>

\* datetime.datetime.fromisoformat, as before Python 3.11: the offset is
\* written +HH:MM (from 3.11 on a final Z is read as +00:00 as well, which
\* the caller's replace makes the same text). Raises ValueError otherwise.
fromisoformat(s) ==
    IF Len(s) = 1 /\ s[1] \in IsoDates
    THEN Returned(datetime(s[1], "00:00:00", "naive"))
    ELSE IF Len(s) = 3 /\ s[1] \in IsoDates /\ s[2] = "T" /\ s[3] \in IsoTimes
    THEN Returned(datetime(s[1], s[3], "naive"))
    ELSE IF /\ Len(s) = 4 /\ s[1] \in IsoDates /\ s[2] = "T"
            /\ s[3] \in IsoTimes /\ s[4] \in IsoOffsets
    THEN Returned(datetime(s[1], s[3], s[4]))
    ELSE ValueError(<<"Invalid isoformat string: ">> \o s)

BeginntPath ==
    <<<<"ax", "lebenszeitintervall">>, <<"ax", "AA_Lebenszeitintervall">>,
      <<"ax", "beginnt">>>>

\* The first ax:beginnt below alkis_member, or NoElement.
FindBeginnt(alkis_member, ns) ==
    LET m == iterfind_descendant(alkis_member, BeginntPath, ns)
    IN  IF m = <<>> THEN NoElement ELSE m[1]

\* The helper without the replacement of Z before parsing.
beginnt_without_z_replace(alkis_member, ns) ==
    LET el == FindBeginnt(alkis_member, ns)
    IN  IF el # NoElement /\ el.text # None /\ el.text # <<>>
        THEN LET r == fromisoformat(el.text)
             IN  IF r.ok THEN Returned(r.value)
                 ELSE IF r.exc = "ValueError" THEN Returned(None)
                 ELSE r
        ELSE Returned(None)

\* The try catches ValueError alone; without a text the function ends
\* without a return statement, which gives None.
get_aa_lebenszeitintervall_beginnt(alkis_member, ns) ==
    LET el == FindBeginnt(alkis_member, ns)
    IN  IF el # NoElement /\ el.text # None /\ el.text # <<>>
        THEN LET r == fromisoformat(StrReplace(el.text, <<"Z">>, <<"+00:00">>))
             IN  IF r.ok THEN Returned(r.value)
                 ELSE IF r.exc = "ValueError" THEN Returned(None)
                 ELSE r
        ELSE Returned(None)

---------------------------------------------------------------------------
(* extract_original_crs_from_xml *)

Ax(name) == <<"ax", name>>

\* Truth of an optional string: neither None nor ''.
Truthy(x) == x # None /\ x # <<>>

TRUE_TEXT == <<"t","r","u","e">>

\* A loop in which the last declaration whose ax:standard is "true" decides.
CrsLoop_LastTrue(angaben, ns) ==
    LET trues == SelectSeq(angaben, LAMBDA a :
                     findtext(a, <<Ax("standard")>>, ns) = <<"t","r","u","e">>)
        crs == find(trues[Len(trues)], <<Ax("crs")>>, ns)
        crs_etrs == AttribGet(crs, XLINK_HREF)
        r == format_crs_name(remove_crs_prefix(crs_etrs))
    IN  IF trues = <<>> THEN Returned(None)
        ELSE IF crs = NoElement
        THEN Raise("AttributeError",
                   <<"'NoneType' object has no attribute 'attrib'">>)
        ELSE IF crs_etrs = None \/ ~r.ok
        THEN ValueError(<<"error when formatting extracted crs: ">>)
        ELSE r

RECURSIVE CrsLoop(_, _)
\* The loop over the declarations: the first whose ax:standard is "true"
\* decides. A missing ax:crs is an attribute access on None; any exception
\* of the formatting (an href of None included) is raised again as
\* ValueError. The loop ending without a return gives None.
CrsLoop(angaben, ns) ==
    IF angaben = <<>> THEN Returned(None)
    ELSE LET angabe == Head(angaben)
             standard == findtext(angabe, <<Ax("standard")>>, ns)
             crs == find(angabe, <<Ax("crs")>>, ns)
             crs_etrs == AttribGet(crs, XLINK_HREF)
             r == format_crs_name(remove_crs_prefix(crs_etrs))
         IN  IF standard # TRUE_TEXT THEN CrsLoop(Tail(angaben), ns)
             ELSE IF crs = NoElement
             THEN Raise("AttributeError",
                        <<"'NoneType' object has no attribute 'attrib'">>)
             ELSE IF crs_etrs = None
             THEN ValueError(<<"error when formatting extracted crs: ", "None">>)
             ELSE IF ~r.ok
             THEN ValueError(<<"error when formatting extracted crs: ">>
                               \o crs_etrs \o <<": \n">> \o r.msg)
             ELSE r

\* An XPath with a prefix the mapping lacks cannot be evaluated.
extract_original_crs_from_xml(root, ns) ==
    IF "ax" \notin DOMAIN ns
    THEN Raise("XPathEvalError", <<"Undefined namespace prefix">>)
    ELSE LET angaben ==
                 find_elements(root, <<Ax("koordinatenangaben"),
                     Ax("AA_Koordinatenreferenzsystemangaben")>>, ns)
         IN  IF angaben # <<>> THEN CrsLoop(angaben, ns) ELSE Returned(None)

---------------------------------------------------------------------------
(* remove_broken_members *)

Whitespace == {" ", "\t", "\n"}

RECURSIVE Split(_)
\* str.split(): the maximal runs of non-whitespace characters.
Split(s) ==
    IF s = <<>> THEN <<>>
    ELSE IF Head(s) \in Whitespace THEN Split(Tail(s))
    ELSE LET rest == Split(Tail(s))
         IN  IF Len(s) > 1 /\ s[2] \notin Whitespace
             THEN <<<<Head(s)>> \o Head(rest)>> \o Tail(rest)
             ELSE <<<<Head(s)>>>> \o rest

FeatureCollectionPath(container) ==
    <<Ax("enthaelt"), <<"wfs", "FeatureCollection">>, container>>

WFS_MEMBER == <<"wfs", "member">>
GML_FEATURE_MEMBER == <<"gml", "featureMember">>

\* The containers the sanitizer scans: wfs:member, or gml:featureMember when
\* there is no wfs:member.
ScannedMembers(root, ns) ==
    LET members == xpath(root, FeatureCollectionPath(WFS_MEMBER), ns)
    IN  IF members = <<>>
        THEN xpath(root, FeatureCollectionPath(GML_FEATURE_MEMBER), ns)
        ELSE members

\* A position with a length test of "at most one coordinate".
IsSingleCoordinate_AtMostOne(pos) ==
    pos.text # None /\ Len(Split(pos.text)) <= 1

\* One pass of the inner loop: a text of None is skipped, a text of exactly
\* one coordinate marks the member (strip() before split() changes nothing).
IsSingleCoordinate(pos) ==
    pos.text # None /\ Len(Split(pos.text)) = 1

IsBrokenMember(member, ns) ==
    LET pos_elements == iterfind_descendant(member, <<<<"gml", "pos">>>>, ns)
    IN  \E i \in 1..Len(pos_elements) : IsSingleCoordinate(pos_elements[i])

RECURSIVE RemoveMembers(_, _, _)
RemoveMembers(root, members, ns) ==
    IF members = <<>> THEN root
    ELSE RemoveMembers(
            IF IsBrokenMember(Head(members), ns)
            THEN RemoveNode(root, Head(members).nid) ELSE root,
            Tail(members), ns)

\* The tree after the call.
remove_broken_members(root, ns) ==
    RemoveMembers(root, ScannedMembers(root, ns), ns)

---------------------------------------------------------------------------
(* get_flurstueck_geometry *)

DataFrame(rows) == <<"DataFrame", rows>>
GeoDataFrame(crs, rows) == <<"GeoDataFrame", rows, crs>>
Rows(df) == df[2]

\* The caller's byte stream: the namespace declarations in document order
\* and the element tree the bytes spell out.
BytesIO(start_ns, root) == <<"BytesIO", start_ns, root>>
StartNs(buf) == buf[2]
Parsed(buf) == buf[3]

\* str(x) of .astype(str): a missing value becomes the text 'None'.
Str(x) == IF x = None THEN <<"N","o","n","e">> ELSE x

\* gpd.read_file(bytes, layer): the decoder reads the document on its own.
\* A feature of the layer is an element of that name anywhere in the
\* document; its identifier field is the text of its gml:identifier child
\* (a missing value without one); its geometry is kept as the position
\* texts it was decoded from.
decode_layer(root, layer_name) ==
    LET all == <<root>> \o Descendants(root)
        feats == SelectSeq(all, LAMBDA e : e.tag.name = layer_name)
        idents(e) == SelectSeq(e.children, LAMBDA c :
                        c.tag = [ns |-> GML_NS, name |-> "identifier"])
        ident(e) == IF idents(e) = <<>> THEN None ELSE idents(e)[1].text
        geom(e) == MapSeq(SelectSeq(Descendants(e), LAMBDA d :
                        d.tag = [ns |-> GML_NS, name |-> "pos"]),
                        LAMBDA d : d.text)
    IN  MapSeq(feats, LAMBDA e : [identifier |-> ident(e), geometry |-> geom(e)])

\* The table of the geometry loader.
GeometryTable(layer, crs) ==
    GeoDataFrame(crs,
        MapSeq(layer, LAMBDA r :
            [ax_flurstueck_id |-> remove_gml_id_prefix(Str(r.identifier)),
             geometry |-> r.geometry]))

\* The outcomes of get_flurstueck_geometry. Two answers lie with the
\* libraries it calls and are left open: for a document without a feature
\* of the layer the decoder fails or gives an empty layer, and set_crs
\* refuses a CRS of None or takes it.
get_flurstueck_geometry(xml_bytesIO, crs) ==
    LET layer == decode_layer(Parsed(xml_bytesIO), "AX_Flurstueck")
    IN  (IF layer = <<>>
         THEN {Raise("DataLayerError", <<"Layer 'AX_Flurstueck' could not be opened">>)}
         ELSE {})
        \cup (IF crs = None
              THEN {ValueError(<<"Must pass either crs or epsg.">>)}
              ELSE {})
        \cup {Returned(GeometryTable(layer, crs))}

---------------------------------------------------------------------------
(* The entity extractors *)

\* The elements of both paths together.
EntityElements_Union(root, entity, ns) ==
    find_elements(root,
        FeatureCollectionPath(WFS_MEMBER) \o <<Ax(entity)>>, ns)
    \o find_elements(root,
           FeatureCollectionPath(GML_FEATURE_MEMBER) \o <<Ax(entity)>>, ns)

\* The elements of an entity type: the wfs:member path, and the
\* gml:featureMember path when that one matches nothing.
EntityElements(root, entity, ns) ==
    LET primary == find_elements(root,
                      FeatureCollectionPath(WFS_MEMBER) \o <<Ax(entity)>>, ns)
    IN  IF primary = <<>>
        THEN find_elements(root,
                FeatureCollectionPath(GML_FEATURE_MEMBER) \o <<Ax(entity)>>, ns)
        ELSE primary

\* A not-found error that does not name the entity type.
NotFound_Unnamed(entity) ==
    ValueError(<<"No elements found in the provided XML file.">>)

NotFound(entity) ==
    ValueError(<<"No ", entity, " elements found in the provided XML file.">>)

UnboundLocalError(name) ==
    Raise("UnboundLocalError",
          <<"cannot access local variable ", name,
            " where it is not associated with a value">>)

RECURSIVE GCD(_, _)
GCD(a, b) == IF b = 0 THEN a ELSE GCD(b, a % b)

\* A float that is the fraction num/den (den > 0), in lowest terms.
Float(num, den) == <<"float", num \div GCD(num, den), den \div GCD(num, den)>>

\* The decimal digits of a natural number.
RECURSIVE Decimal(_)
Decimal(n) ==
    LET d == <<"0","1","2","3","4","5","6","7","8","9">>[(n % 10) + 1]
    IN  IF n < 10 THEN <<d>> ELSE Decimal(n \div 10) \o <<d>>

RECURSIVE DecimalValue(_)
DecimalValue(digits) ==
    IF digits = <<>> THEN 0
    ELSE 10 * DecimalValue(SubSeq(digits, 1, Len(digits) - 1))
         + (CHOOSE v \in 0..9 :
              <<"0","1","2","3","4","5","6","7","8","9">>[v + 1]
                  = digits[Len(digits)])

\* float(text) on the texts in use: surrounding whitespace is ignored, a
\* run of digits is a number, anything else raises ValueError.
ParseFloat(text) ==
    LET tokens == Split(text)
    IN  IF Len(tokens) = 1 /\ \A i \in 1..Len(tokens[1]) : tokens[1][i] \in Digit
        THEN Returned(Float(DecimalValue(tokens[1]), 1))
        ELSE ValueError(<<"could not convert string to float: ">> \o Repr(text))

\* The href of a reference child with the id prefix removed when it is not
\* None.
StrippedHref(el, name, ns) ==
    LET href == find_attr(el, <<Ax(name)>>, XLINK_HREF, ns)
    IN  IF href # None THEN remove_gml_id_prefix(href) ELSE None

Text(el, name, ns) == findtext(el, <<Ax(name)>>, ns)
Beginnt(el, ns) == get_aa_lebenszeitintervall_beginnt(el, ns).value

\* --- AX_Flurstueck

\* amtliche_flaeche: None without the child or when float() raises.
AmtlicheFlaeche(flurstueck, ns) ==
    LET amtliche_flaeche_text == Text(flurstueck, "amtlicheFlaeche", ns)
    IN  IF amtliche_flaeche_text # None
        THEN (IF ParseFloat(amtliche_flaeche_text).ok
              THEN ParseFloat(amtliche_flaeche_text).value ELSE None)
        ELSE None

FlurstueckRow(flurstueck, ns) ==
    [ax_flurstueck_id |-> AttribGet(flurstueck, GML_ID),
     flurstueckskennzeichen |-> Text(flurstueck, "flurstueckskennzeichen", ns),
     amtliche_flaeche |-> AmtlicheFlaeche(flurstueck, ns),
     ax_buchungsstelle_id |-> StrippedHref(flurstueck, "istGebucht", ns),
     ax_lagebezeichnung_ohne_hausnummer_id |->
         StrippedHref(flurstueck, "zeigtAuf", ns),
     zeitpunktDerEntstehung |-> Text(flurstueck, "zeitpunktDerEntstehung", ns),
     aa_lebenszeitintervall_beginnt |-> Beginnt(flurstueck, ns)]

\* The scalar table: one row per element with a gml:id that is not empty.
FlurstueckScalars(flurstuecke, ns) ==
    MapSeq(SelectSeq(flurstuecke, LAMBDA e : Truthy(AttribGet(e, GML_ID))),
           LAMBDA e : FlurstueckRow(e, ns))

\* A merge that keeps every left row: the left join.
Merge_Left(left, right) ==
    Flatten(MapSeq(left, LAMBDA g :
        LET hits == SelectSeq(right, LAMBDA d :
                        d.ax_flurstueck_id = g.ax_flurstueck_id)
        IN  IF hits = <<>> THEN <<g>>
            ELSE MapSeq(hits, LAMBDA d : [geometry |-> g.geometry] @@ d)))

\* left.merge(right, on="ax_flurstueck_id"): the inner join, in the order of
\* the left rows and, for each, of the matching right rows.
Merge(left, right) ==
    Flatten(MapSeq(left, LAMBDA g :
        MapSeq(SelectSeq(right, LAMBDA d :
                   d.ax_flurstueck_id = g.ax_flurstueck_id),
               LAMBDA d : [geometry |-> g.geometry] @@ d)))

get_ax_flurstueck_data(root, ns, gdf) ==
    LET flurstuecke == EntityElements(root, "AX_Flurstueck", ns)
    IN  IF flurstuecke = <<>> THEN NotFound("AX_Flurstueck")
        ELSE Returned(GeoDataFrame(gdf[3],
                 Merge(Rows(gdf), FlurstueckScalars(flurstuecke, ns))))

\* --- AX_Person

\* The locals before the loop: identifier is declared without a value.
PersonLocals0 ==
    [ax_person_id |-> Unset, nachname_oder_firma |-> None, vorname |-> None,
     anrede |-> None, namensbestandteil |-> None, akademischer_grad |-> None,
     geburtsname |-> None, geburtsdatum |-> None, ax_anschrift_id |-> None,
     aa_lebenszeitintervall_beginnt |-> None, anlass |-> None]

PersonHat(person, ns) ==
    LET anschrift_id == find_attr(person, <<Ax("hat")>>, XLINK_HREF, ns)
    IN  IF Truthy(anschrift_id) THEN remove_gml_id_prefix(anschrift_id)
        ELSE anschrift_id

\* The locals after the body of "if gml_id:".
PersonLocals(person, ns) ==
    [ax_person_id |-> AttribGet(person, GML_ID),
     nachname_oder_firma |-> Text(person, "nachnameOderFirma", ns),
     vorname |-> Text(person, "vorname", ns),
     anrede |-> Text(person, "anrede", ns),
     namensbestandteil |-> Text(person, "namensbestandteil", ns),
     akademischer_grad |-> Text(person, "akademischerGrad", ns),
     geburtsname |-> Text(person, "geburtsname", ns),
     geburtsdatum |-> Text(person, "geburtsdatum", ns),
     ax_anschrift_id |-> PersonHat(person, ns),
     aa_lebenszeitintervall_beginnt |-> Beginnt(person, ns),
     anlass |-> Text(person, "anlass", ns)]

RECURSIVE PersonLoop(_, _, _, _)
\* The appends follow the "if gml_id:" block, outside it: an element
\* without gml:id appends the locals as the element before left them.
PersonLoop(personen, locals, rows, ns) ==
    IF personen = <<>> THEN Returned(DataFrame(rows))
    ELSE LET person == Head(personen)
             now == IF Truthy(AttribGet(person, GML_ID))
                    THEN PersonLocals(person, ns) ELSE locals
         IN  IF now.ax_person_id = Unset THEN UnboundLocalError("identifier")
             ELSE PersonLoop(Tail(personen), now, Append(rows, now), ns)

get_ax_person_data(root, ns) ==
    LET personen == EntityElements(root, "AX_Person", ns)
    IN  IF personen = <<>> THEN NotFound("AX_Person")
        ELSE PersonLoop(personen, PersonLocals0, <<>>, ns)

\* --- AX_Buchungsblattbezirk, AX_Buchungsblatt

\* child.tag.endswith(suffix) on the element names in use.
TagEndsWith(child, suffix) ==
    <<child.tag.name, suffix>> \in
        {<<"land", "land">>, <<"bezirk", "bezirk">>, <<"stelle", "stelle">>}

\* The text of the last child whose tag ends with suffix, None without one
\* (and None without the key structure).
LastChildText(key, suffix) ==
    IF key = NoElement THEN None
    ELSE LET hits == SelectSeq(key.children, LAMBDA c : TagEndsWith(c, suffix))
         IN  IF hits = <<>> THEN None ELSE hits[Len(hits)].text

\* One row per element: no element is skipped, the id is attrib.get's value.
BuchungsblattbezirkRow(bezirk, ns) ==
    LET schluessel == find(bezirk,
            <<Ax("schluessel"), Ax("AX_Buchungsblattbezirk_Schluessel")>>, ns)
        dienststelle == find(bezirk,
            <<Ax("gehoertZu"), Ax("AX_Dienststelle_Schluessel")>>, ns)
    IN  [ax_buchungsblattbezirk_id |-> AttribGet(bezirk, GML_ID),
         schluessel_gesamt |-> Text(bezirk, "schluesselGesamt", ns),
         bbz_bezeichnung |-> Text(bezirk, "bezeichnung", ns),
         ax_buchungsblattbezirk_schluessel_land |->
             LastChildText(schluessel, "land"),
         ax_buchungsblattbezirk_schluessel_bezirk |->
             LastChildText(schluessel, "bezirk"),
         gehoert_zu_ax_dienststelle_schluessel_stelle |->
             LastChildText(dienststelle, "stelle"),
         ax_dienststelle_schluessel_land |-> LastChildText(dienststelle, "land"),
         ax_dienststelle_schluessel_stelle |->
             LastChildText(dienststelle, "stelle"),
         aa_lebenszeitintervall_beginnt |-> Beginnt(bezirk, ns),
         anlass |-> Text(bezirk, "anlass", ns)]

get_ax_buchungsblattbezirk_data(root, ns) ==
    LET bezirke == EntityElements(root, "AX_Buchungsblattbezirk", ns)
    IN  IF bezirke = <<>> THEN NotFound("AX_Buchungsblattbezirk")
        ELSE Returned(DataFrame(
                 MapSeq(bezirke, LAMBDA e : BuchungsblattbezirkRow(e, ns))))

\* The loop with the combined key set only for the children in the order
\* land, bezirk.
SchluesselLoop_InOrder(children, k) ==
    LET lands == SelectSeq(children, LAMBDA c : TagEndsWith(c, "land"))
        bezirke == SelectSeq(children, LAMBDA c : TagEndsWith(c, "bezirk"))
        land == IF lands = <<>> THEN k.land ELSE lands[Len(lands)].text
        bezirk == IF bezirke = <<>> THEN k.bezirk
                  ELSE bezirke[Len(bezirke)].text
    IN  [land |-> land, bezirk |-> bezirk,
         schluessel_gesamt |->
             IF /\ Len(children) >= 2
                /\ TagEndsWith(children[1], "land")
                /\ TagEndsWith(children[2], "bezirk")
                /\ Truthy(land) /\ Truthy(bezirk)
             THEN land \o bezirk ELSE k.schluessel_gesamt]

RECURSIVE SchluesselLoop(_, _)
\* The loop over the children of the key structure: k holds land, bezirk
\* and schluesselgesamt; the combined key is set after a child once both
\* parts are non-empty.
SchluesselLoop(children, k) ==
    IF children = <<>> THEN k
    ELSE LET child == Head(children)
             k1 == IF TagEndsWith(child, "land")
                   THEN [k EXCEPT !.land = child.text] ELSE k
             k2 == IF TagEndsWith(child, "bezirk")
                   THEN [k1 EXCEPT !.bezirk = child.text] ELSE k1
             k3 == IF Truthy(k2.land) /\ Truthy(k2.bezirk)
                   THEN [k2 EXCEPT !.schluessel_gesamt = k2.land \o k2.bezirk]
                   ELSE k2
         IN  SchluesselLoop(Tail(children), k3)

BuchungsblattRow(blatt, ns) ==
    LET schluessel == find(blatt, <<Ax("buchungsblattbezirk"),
                              Ax("AX_Buchungsblattbezirk_Schluessel")>>, ns)
        k0 == [land |-> None, bezirk |-> None, schluessel_gesamt |-> None]
        k == IF schluessel # NoElement
             THEN SchluesselLoop(schluessel.children, k0) ELSE k0
    IN  [ax_buchungsblatt_id |-> AttribGet(blatt, GML_ID),
         buchungsblattkennzeichen |-> Text(blatt, "buchungsblattkennzeichen", ns),
         land |-> k.land,
         bezirk |-> k.bezirk,
         schluessel_gesamt |-> k.schluessel_gesamt,
         blattart |-> Text(blatt, "blattart", ns),
         buchungsblattnummer_mit_buchstabenerweiterung |->
             Text(blatt, "buchungsblattnummerMitBuchstabenerweiterung", ns),
         aa_lebenszeitintervall_beginnt |-> Beginnt(blatt, ns),
         anlass |-> Text(blatt, "anlass", ns)]

get_ax_buchungsblatt_data(root, ns) ==
    LET blaetter == EntityElements(root, "AX_Buchungsblatt", ns)
    IN  IF blaetter = <<>> THEN NotFound("AX_Buchungsblatt")
        ELSE Returned(DataFrame(
                 MapSeq(blaetter, LAMBDA e : BuchungsblattRow(e, ns))))

\* --- AX_Anschrift

AnschriftRow(anschrift, ns) ==
    [ax_anschrift_id |-> AttribGet(anschrift, GML_ID),
     ort_post |-> Text(anschrift, "ort_Post", ns),
     postleitzahl_postzustellung |->
         Text(anschrift, "postleitzahlPostzustellung", ns),
     strasse |-> Text(anschrift, "strasse", ns),
     hausnummer |-> Text(anschrift, "hausnummer", ns),
     aa_lebenszeitintervall_beginnt |-> Beginnt(anschrift, ns),
     ortsteil |-> Text(anschrift, "ortsteil", ns),
     anlass |-> Text(anschrift, "anlass", ns),
     tel |-> Text(anschrift, "TEL", ns),
     weitere_adressen |-> Text(anschrift, "weitereAdressen", ns)]

get_ax_anschrift_data(root, ns) ==
    LET anschriften == EntityElements(root, "AX_Anschrift", ns)
    IN  IF anschriften = <<>> THEN NotFound("AX_Anschrift")
        ELSE Returned(DataFrame(
                 MapSeq(SelectSeq(anschriften,
                            LAMBDA e : Truthy(AttribGet(e, GML_ID))),
                        LAMBDA e : AnschriftRow(e, ns))))

\* --- AX_Namensnummer

AnteilPath(name) == <<Ax("anteil"), Ax("AX_Anteil"), Ax(name)>>

\* The share with the division turned around.
Anteil_Inverted(namensnummer, ns) ==
    LET anteil_zaehler == findtext(namensnummer, AnteilPath("zaehler"), ns)
        anteil_nenner == findtext(namensnummer, AnteilPath("nenner"), ns)
        zaehler == ParseFloat(anteil_zaehler)
        nenner == ParseFloat(anteil_nenner)
    IN  IF anteil_zaehler # None /\ anteil_nenner # None
        THEN (IF ~zaehler.ok THEN zaehler
              ELSE IF ~nenner.ok THEN nenner
              ELSE IF zaehler.value[2] = 0
              THEN Raise("ZeroDivisionError", <<"float division by zero">>)
              ELSE Returned(Float(nenner.value[2] * zaehler.value[3],
                                  nenner.value[3] * zaehler.value[2])))
        ELSE Returned(Float(1, 1))

\* ax_anteil: float(1) unless both texts are there; then the quotient of
\* the two floats. float() and the division raise on their own.
Anteil(namensnummer, ns) ==
    LET anteil_zaehler == findtext(namensnummer, AnteilPath("zaehler"), ns)
        anteil_nenner == findtext(namensnummer, AnteilPath("nenner"), ns)
        zaehler == ParseFloat(anteil_zaehler)
        nenner == ParseFloat(anteil_nenner)
    IN  IF anteil_zaehler # None /\ anteil_nenner # None
        THEN (IF ~zaehler.ok THEN zaehler
              ELSE IF ~nenner.ok THEN nenner
              ELSE IF nenner.value[2] = 0
              THEN Raise("ZeroDivisionError", <<"float division by zero">>)
              ELSE Returned(Float(zaehler.value[2] * nenner.value[3],
                                  zaehler.value[3] * nenner.value[2])))
        ELSE Returned(Float(1, 1))

NamensnummerRow(namensnummer, ns, anteil) ==
    [ax_namensnummer_id |-> AttribGet(namensnummer, GML_ID),
     ax_person_id |-> StrippedHref(namensnummer, "benennt", ns),
     laufende_nummer |-> Text(namensnummer, "laufendeNummerNachDIN1421", ns),
     ax_buchungsblatt_id |-> StrippedHref(namensnummer, "istBestandteilVon", ns),
     anlass |-> find_attr(namensnummer, <<Ax("anlass")>>, XLINK_TITLE, ns),
     art_der_rechtsgemeinschaft |->
         Text(namensnummer, "artDerRechtsgemeinschaft", ns),
     besteht_aus_rechtsverhaeltnissen_zu |->
         StrippedHref(namensnummer, "bestehtAusRechtsverhaeltnissenZu", ns),
     anteil |-> anteil]

RECURSIVE NamensnummerLoop(_, _, _)
NamensnummerLoop(namensnummern, rows, ns) ==
    IF namensnummern = <<>> THEN Returned(DataFrame(rows))
    ELSE LET namensnummer == Head(namensnummern)
             anteil == Anteil(namensnummer, ns)
         IN  IF ~Truthy(AttribGet(namensnummer, GML_ID))
             THEN NamensnummerLoop(Tail(namensnummern), rows, ns)
             ELSE IF ~anteil.ok THEN anteil
             ELSE NamensnummerLoop(Tail(namensnummern),
                      Append(rows,
                          NamensnummerRow(namensnummer, ns, anteil.value)),
                      ns)

get_ax_namensnummer_data(root, ns) ==
    LET namensnummern == EntityElements(root, "AX_Namensnummer", ns)
    IN  IF namensnummern = <<>> THEN NotFound("AX_Namensnummer")
        ELSE NamensnummerLoop(namensnummern, <<>>, ns)

\* --- AX_Buchungsstelle

RECURSIVE BuchungsstelleLoop(_, _, _, _)
\* ax_buchungsblatt_id is declared without a value and assigned only when
\* the element has the reference: otherwise the append reads what an
\* earlier element left, or nothing at all.
BuchungsstelleLoop(buchungsstellen, ax_buchungsblatt_id, rows, ns) ==
    IF buchungsstellen = <<>> THEN Returned(DataFrame(rows))
    ELSE LET buchungsstelle == Head(buchungsstellen)
             ist_bestandteil_von_id ==
                 find_attr(buchungsstelle, <<Ax("istBestandteilVon")>>,
                           XLINK_HREF, ns)
             now == IF ist_bestandteil_von_id # None
                    THEN remove_gml_id_prefix(ist_bestandteil_von_id)
                    ELSE ax_buchungsblatt_id
         IN  IF ~Truthy(AttribGet(buchungsstelle, GML_ID))
             THEN BuchungsstelleLoop(Tail(buchungsstellen),
                      ax_buchungsblatt_id, rows, ns)
             ELSE IF now = Unset THEN UnboundLocalError("ax_buchungsblatt_id")
             ELSE BuchungsstelleLoop(Tail(buchungsstellen), now,
                      Append(rows,
                          [ax_buchungsstelle_id |->
                               AttribGet(buchungsstelle, GML_ID),
                           buchungsart |-> Text(buchungsstelle, "buchungsart", ns),
                           laufende_nummer |->
                               Text(buchungsstelle, "laufendeNummer", ns),
                           ax_buchungsblatt_id |-> now]),
                      ns)

get_ax_buchungsstelle_data(root, ns) ==
    LET buchungsstellen == EntityElements(root, "AX_Buchungsstelle", ns)
    IN  IF buchungsstellen = <<>> THEN NotFound("AX_Buchungsstelle")
        ELSE BuchungsstelleLoop(buchungsstellen, Unset, <<>>, ns)

---------------------------------------------------------------------------
(* Building documents *)

El(tag, attrib, text, children, nid) ==
    [tag |-> tag, attrib |-> attrib, text |-> text, children |-> children,
     nid |-> nid]

NoAttrib == <<>>

\* An element with text (or None) and nothing else.
Leaf(uri, name, text) ==
    El([ns |-> uri, name |-> name], NoAttrib, text, <<>>, 0)

\* An element that holds child elements only.
Node(uri, name, children) ==
    El([ns |-> uri, name |-> name], NoAttrib, None, children, 0)

\* A reference element: its xlink:href, or no attribute for None.
Ref(uri, name, href) ==
    El([ns |-> uri, name |-> name],
       IF href = None THEN NoAttrib ELSE (XLINK_HREF :> href),
       None, <<>>, 0)

\* Stands for "the element has no ax:beginnt" where a document is built.
NoStamp == <<"no element">>

\* The children that carry the lifecycle start: none for NoStamp, else
\* ax:lebenszeitintervall/ax:AA_Lebenszeitintervall/ax:beginnt with the text.
Lifetime(uri, t) ==
    IF t = NoStamp THEN <<>>
    ELSE <<Node(uri, "lebenszeitintervall",
             <<Node(uri, "AA_Lebenszeitintervall",
                 <<Leaf(uri, "beginnt", t)>>)>>)>>

\* A feature is described by a shape: c the container tag, id the form of
\* its gml:id ("urn": with the id prefix, "bare": without, "absent": no
\* attribute), pos the texts of its gml:pos elements, full whether its
\* optional children are there, x what is special to its entity type.

EntityTypes ==
    <<"AX_Flurstueck", "AX_Person", "AX_Buchungsblattbezirk",
      "AX_Buchungsblatt", "AX_Anschrift", "AX_Namensnummer",
      "AX_Buchungsstelle">>
EntitySet == {EntityTypes[i] : i \in 1..Len(EntityTypes)}
EntityIndex(t) == CHOOSE i \in 1..Len(EntityTypes) : EntityTypes[i] = t

\* The letter that starts the ids of an entity type.
IdLetter(t) == <<"F", "P", "Z", "B", "A", "N", "S">>[EntityIndex(t)]

\* The id of the i-th feature of type t, without prefix.
\* The first two parcels carry the ids of the two-parcel test document.
IdBody(t, i) ==
    IF t = "AX_Flurstueck" /\ i = 1 THEN <<"1","2","3">>
    ELSE IF t = "AX_Flurstueck" /\ i = 2 THEN <<"9","9","9">>
    ELSE <<IdLetter(t)>> \o Decimal(i)
UrnId(t, i) == ID_NAMESPACE \o IdBody(t, i)

GOOD_POS == <<"1","0"," ","2","0">>
SINGLE_POS == <<"4","2">>

DefaultShape(t) ==
    [c |-> "member", id |-> "urn",
     pos |-> IF t = "AX_Flurstueck" THEN <<GOOD_POS>> ELSE <<>>,
     full |-> TRUE,
     x |-> IF t = "AX_Namensnummer" THEN "1/2" ELSE ""]

\* What is special to a type: for a parcel its place in the geometry layer
\* and its area text, for a name entry zaehler/nenner ("-" is no element),
\* for a ledger the children of its key structure.
Extras(t) ==
    CASE t = "AX_Flurstueck" -> {"nolayer", "barelayer", "badflaeche"}
      [] t = "AX_Namensnummer" -> {"-/-", "1/-", "-/2", "2/4", "1/0", "x/2"}
      [] t = "AX_Buchungsblatt" -> {"bezirk-land", "land-only"}
      [] OTHER -> {}

Variants(t) ==
    LET d == DefaultShape(t)
    IN  {d, [d EXCEPT !.id = "bare"], [d EXCEPT !.id = "absent"],
         [d EXCEPT !.c = "featureMember"],
         [d EXCEPT !.pos = <<SINGLE_POS>>],
         [d EXCEPT !.c = "featureMember", !.pos = <<SINGLE_POS>>],
         [d EXCEPT !.full = FALSE]}
        \cup {[d EXCEPT !.x = x] : x \in Extras(t)}

GmlIdAttrib(t, shape, i) ==
    CASE shape.id = "urn" -> (GML_ID :> UrnId(t, i))
      [] shape.id = "bare" -> (GML_ID :> IdBody(t, i))
      [] OTHER -> NoAttrib

\* The gml:pos elements sit below a geometry element of the feature.
PosChildren(uri, shape) ==
    IF shape.pos = <<>> THEN <<>>
    ELSE <<Node(uri, "position",
             MapSeq(shape.pos, LAMBDA p : Leaf(GML_NS, "pos", p)))>>

TextOf(name) ==
    CASE name = "1" -> <<"1">> [] name = "2" -> <<"2">> [] name = "4" -> <<"4">>
      [] name = "0" -> <<"0">> [] name = "x" -> <<"x">>

AnteilChildren(uri, x) ==
    LET z == CASE x \in {"1/2", "1/-", "1/0"} -> "1" [] x = "2/4" -> "2"
               [] x = "x/2" -> "x" [] OTHER -> "-"
        n == CASE x \in {"1/2", "-/2", "x/2"} -> "2" [] x = "2/4" -> "4"
               [] x = "1/0" -> "0" [] OTHER -> "-"
    IN  IF z = "-" /\ n = "-" THEN <<>>
        ELSE <<Node(uri, "anteil", <<Node(uri, "AX_Anteil",
                 (IF z = "-" THEN <<>> ELSE <<Leaf(uri, "zaehler", TextOf(z))>>)
                 \o (IF n = "-" THEN <<>>
                     ELSE <<Leaf(uri, "nenner", TextOf(n))>>))>>)>>

STAMP == <<"2024-10-27", "T", "12:34:56", "Z">>
LAND == <<"0","5">>
BEZIRK == <<"1","2","3">>
STELLE == <<"7">>

KeyChildren(uri, x) ==
    CASE x = "bezirk-land" ->
            <<Leaf(uri, "bezirk", BEZIRK), Leaf(uri, "land", LAND)>>
      [] x = "land-only" -> <<Leaf(uri, "land", LAND)>>
      [] OTHER -> <<Leaf(uri, "land", LAND), Leaf(uri, "bezirk", BEZIRK)>>

\* The optional children of a feature of type t (all of them, or none).
OptionalChildren(uri, t, shape) ==
    CASE t = "AX_Flurstueck" ->
            <<Leaf(uri, "flurstueckskennzeichen", <<"k">>),
              Leaf(uri, "amtlicheFlaeche",
                   IF shape.x = "badflaeche" THEN <<"x">> ELSE <<"1","2">>),
              Leaf(uri, "zeitpunktDerEntstehung", <<"z">>),
              Ref(uri, "istGebucht", UrnId("AX_Buchungsstelle", 1)),
              Ref(uri, "zeigtAuf", ID_NAMESPACE \o <<"L","1">>)>>
      [] t = "AX_Person" ->
            <<Leaf(uri, "nachnameOderFirma", <<"n">>),
              Leaf(uri, "vorname", <<"v">>), Leaf(uri, "anrede", <<"a">>),
              Leaf(uri, "geburtsname", <<"g">>),
              Leaf(uri, "geburtsdatum", <<"d">>), Leaf(uri, "anlass", <<"l">>),
              Leaf(uri, "namensbestandteil", <<"b">>),
              Leaf(uri, "akademischerGrad", <<"t">>),
              Ref(uri, "hat", UrnId("AX_Anschrift", 1))>>
      [] t = "AX_Buchungsblattbezirk" ->
            <<Leaf(uri, "schluesselGesamt", LAND \o BEZIRK),
              Leaf(uri, "anlass", <<"l">>), Leaf(uri, "bezeichnung", <<"b">>),
              Node(uri, "schluessel",
                   <<Node(uri, "AX_Buchungsblattbezirk_Schluessel",
                          KeyChildren(uri, ""))>>),
              Node(uri, "gehoertZu",
                   <<Node(uri, "AX_Dienststelle_Schluessel",
                          <<Leaf(uri, "land", LAND),
                            Leaf(uri, "stelle", STELLE)>>)>>)>>
      [] t = "AX_Buchungsblatt" ->
            <<Leaf(uri, "buchungsblattkennzeichen", <<"k">>),
              Leaf(uri, "buchungsblattnummerMitBuchstabenerweiterung", <<"n">>),
              Leaf(uri, "blattart", <<"a">>), Leaf(uri, "anlass", <<"l">>),
              Node(uri, "buchungsblattbezirk",
                   <<Node(uri, "AX_Buchungsblattbezirk_Schluessel",
                          KeyChildren(uri, shape.x))>>)>>
      [] t = "AX_Anschrift" ->
            <<Leaf(uri, "ortsteil", <<"o">>), Leaf(uri, "anlass", <<"l">>),
              Leaf(uri, "TEL", <<"t">>), Leaf(uri, "weitereAdressen", <<"w">>),
              Leaf(uri, "ort_Post", <<"p">>),
              Leaf(uri, "postleitzahlPostzustellung", <<"1","0">>),
              Leaf(uri, "strasse", <<"s">>), Leaf(uri, "hausnummer", <<"4">>)>>
      [] t = "AX_Namensnummer" ->
            <<Ref(uri, "istBestandteilVon", UrnId("AX_Buchungsblatt", 1)),
              Leaf(uri, "laufendeNummerNachDIN1421", <<"1">>),
              Ref(uri, "benennt", UrnId("AX_Person", 1)),
              El([ns |-> uri, name |-> "anlass"], (XLINK_TITLE :> <<"l">>),
                 None, <<>>, 0),
              Leaf(uri, "artDerRechtsgemeinschaft", <<"r">>),
              Ref(uri, "bestehtAusRechtsverhaeltnissenZu",
                  UrnId("AX_Namensnummer", 9))>>
      [] t = "AX_Buchungsstelle" ->
            <<Leaf(uri, "buchungsart", <<"a">>),
              Leaf(uri, "laufendeNummer", <<"1">>),
              Ref(uri, "istBestandteilVon", UrnId("AX_Buchungsblatt", 1))>>

\* The gml:identifier of a parcel, which puts it into the geometry layer.
IdentifierChildren(t, shape, i) ==
    IF t # "AX_Flurstueck" \/ shape.x = "nolayer" THEN <<>>
    ELSE <<Leaf(GML_NS, "identifier",
                IF shape.x = "barelayer" THEN IdBody(t, i) ELSE UrnId(t, i))>>

Feature(uri, t, shape, i) ==
    El([ns |-> uri, name |-> t], GmlIdAttrib(t, shape, i), None,
       IdentifierChildren(t, shape, i)
         \o PosChildren(uri, shape)
         \o (IF shape.full
             THEN OptionalChildren(uri, t, shape) \o Lifetime(uri, STAMP)
             ELSE <<>>)
         \o (IF t = "AX_Namensnummer" THEN AnteilChildren(uri, shape.x)
             ELSE <<>>),
       0)

\* The container of the i-th feature of type t; its node identity is unique
\* in the document.
Container(uri, t, shape, i) ==
    El(IF shape.c = "member" THEN [ns |-> WFS_NS, name |-> "member"]
       ELSE [ns |-> GML_NS, name |-> "featureMember"],
       NoAttrib, None, <<Feature(uri, t, shape, i)>>,
       10 * EntityIndex(t) + i)

\* One CRS declaration: its ax:crs reference (no element for None) and the
\* text of its ax:standard.
Koordinatenangaben(uri, decl) ==
    Node(uri, "koordinatenangaben",
      <<Node(uri, "AA_Koordinatenreferenzsystemangaben",
          (IF decl.crs = None THEN <<>>
           ELSE <<Ref(uri, "crs", CRS_NAMESPACE \o decl.crs)>>)
          \o <<Leaf(uri, "standard", decl.standard)>>)>>)

\* The sequences over S of length at most n.
SeqsUpTo(S, n) == UNION {[1..k -> S] : k \in 0..n}

UTM(zone) == <<"E","T","R","S","8","9","_","U","T","M">> \o Decimal(zone)
FALSE_TEXT == <<"f","a","l","s","e">>

\* The lists of CRS declarations a document comes with.
CrsDeclarations ==
    {<<[crs |-> UTM(32), standard |-> TRUE_TEXT]>>,
     <<[crs |-> UTM(33), standard |-> FALSE_TEXT],
       [crs |-> UTM(32), standard |-> TRUE_TEXT],
       [crs |-> UTM(33), standard |-> TRUE_TEXT]>>,
     <<[crs |-> UTM(33), standard |-> FALSE_TEXT]>>,
     <<>>,
     <<[crs |-> <<"D","H","D","N">>, standard |-> TRUE_TEXT]>>,
     <<[crs |-> None, standard |-> TRUE_TEXT]>>,
     <<[crs |-> UTM(32), standard |-> TRUE_TEXT],
       [crs |-> None, standard |-> TRUE_TEXT],
       [crs |-> <<"D","H","D","N">>, standard |-> TRUE_TEXT]>>,
     <<[crs |-> None, standard |-> <<"T","r","u","e">>],
       [crs |-> UTM(33), standard |-> TRUE_TEXT]>>}

\* The namespace declarations a document comes with: the application schema
\* under the prefix ax, under another prefix, as the default namespace, and
\* in a version the resolver does not know.
AX_5_1 == "http://www.adv-online.de/namespaces/adv/gid/5.1"
OtherNs == <<<<"wfs", WFS_NS>>, <<"gml", GML_NS>>, <<"xlink", XLINK_NS>>>>
NsDeclarations ==
    {<<<<"ax", AX_7_1>>>> \o OtherNs,
     <<<<"adv", AX_7_1>>>> \o OtherNs,
     <<<<"", AX_6_0>>>> \o OtherNs,
     OtherNs \o <<<<"adv", AX_6_0>>, <<"ax", AX_7_1>>>>,
     <<<<"", AX_5_1>>>> \o OtherNs}

\* The namespace the elements of the application schema are in: the one
\* declared first.
SchemaUri(start_ns) ==
    LET ax == SelectSeq(start_ns, LAMBDA d :
                  d[2] \in target_ax_uri_list \cup {AX_5_1})
    IN  ax[1][2]

\* A document: the CRS declarations, then ax:enthaelt with the feature
\* collection; features[t] is the list of shapes of the features of type t.
Document(start_ns, decls, features) ==
    LET uri == SchemaUri(start_ns)
        containers(t) == [i \in 1..Len(features[t]) |->
                             Container(uri, t, features[t][i], i)]
    IN  BytesIO(start_ns,
          Node(uri, "AX_Bestandsdatenauszug",
            MapSeq(decls, LAMBDA d : Koordinatenangaben(uri, d))
            \o <<Node(uri, "enthaelt",
                  <<Node(WFS_NS, "FeatureCollection",
                      Flatten(MapSeq(EntityTypes, containers)))>>)>>))

---------------------------------------------------------------------------
(* Construction: AX_Extract(xml_bytes), one action per step of
   __post_init__ *)

MaxFeatures == 2

DefaultNs == <<<<"ax", AX_7_1>>>> \o OtherNs
DefaultCrs == <<[crs |-> UTM(32), standard |-> TRUE_TEXT]>>
OneOfEach == [t \in EntitySet |-> <<DefaultShape(t)>>]

MaxMissing == 2

\* The documents construction is run on:
\*  - one default feature of each type under every pairing of namespace and
\*    CRS declarations;
\*  - under the default declarations, every list of up to MaxFeatures
\*    features of one type beside one default feature of every other type;
\*  - up to MaxMissing types left out, one default feature of the others;
\*  - one feature of any shape of one type, one other type left out.
Documents ==
    {Document(n, c, OneOfEach) : n \in NsDeclarations, c \in CrsDeclarations}
    \cup
    UNION {{Document(DefaultNs, DefaultCrs,
                     [OneOfEach EXCEPT ![focus] = shapes]) :
               shapes \in SeqsUpTo(Variants(focus), MaxFeatures)} :
           focus \in EntitySet}
    \cup
    {Document(DefaultNs, DefaultCrs,
              [t \in EntitySet |-> IF t \in gaps THEN <<>> ELSE OneOfEach[t]]) :
        gaps \in {G \in SUBSET EntitySet : Cardinality(G) <= MaxMissing}}
    \cup
    UNION {{Document(DefaultNs, DefaultCrs,
                     [OneOfEach EXCEPT ![focus] = <<shape>>, ![gap] = <<>>]) :
               shape \in Variants(focus), gap \in EntitySet \ {focus}} :
           focus \in EntitySet}

NoHelper == "none"

Init ==
    /\ doc \in Documents
    /\ xml_bytes = doc
    /\ pc = "get_namespaces"
    /\ error = NoError
    /\ namespaces = Unset
    /\ xml_root = NoElement
    /\ crs_name = Unset
    /\ current_crs = Unset
    /\ gdf_buf = Unset
    /\ ax_flurstueck = Unset
    /\ ax_person = Unset
    /\ ax_buchungsblattbezirk = Unset
    /\ ax_buchungsblatt = Unset
    /\ ax_anschrift = Unset
    /\ ax_namensnummer = Unset
    /\ ax_buchungsstelle = Unset
    /\ h_fn = NoHelper
    /\ h_arg = None
    /\ h_ret = <<>>

\* self.namespaces = self.get_namespaces()
GetNamespaces ==
    /\ pc = "get_namespaces"
    /\ namespaces' = get_namespaces(StartNs(xml_bytes))
    /\ pc' = "parse_xml_file"
    /\ UNCHANGED <<doc, error, xml_bytes, xml_root, crs_name, current_crs,
                   gdf_buf, ax_flurstueck, ax_person,
                   ax_buchungsblattbezirk, ax_buchungsblatt, ax_anschrift,
                   ax_namensnummer, ax_buchungsstelle, helper_vars>>

\* self.xml_root = self.parse_xml_file()
ParseXmlFile ==
    /\ pc = "parse_xml_file"
    /\ xml_root' = Parsed(xml_bytes)
    /\ pc' = "extract_original_crs_from_xml"
    /\ UNCHANGED <<doc, error, xml_bytes, namespaces, crs_name,
                   current_crs, gdf_buf, ax_flurstueck, ax_person,
                   ax_buchungsblattbezirk, ax_buchungsblatt, ax_anschrift,
                   ax_namensnummer, ax_buchungsstelle, helper_vars>>

\* self.crs_name = self.extract_original_crs_from_xml();
\* self.current_crs = self.crs_name
ExtractOriginalCrsFromXml ==
    /\ pc = "extract_original_crs_from_xml"
    /\ LET r == extract_original_crs_from_xml(xml_root, namespaces)
       IN  IF r.ok
           THEN /\ crs_name' = r.value
                /\ current_crs' = r.value
                /\ pc' = "get_flurstueck_geometry"
                /\ error' = error
           ELSE /\ error' = r
                /\ pc' = "failed"
                /\ UNCHANGED <<crs_name, current_crs>>
    /\ UNCHANGED <<doc, xml_bytes, namespaces, xml_root, gdf_buf,
                   ax_flurstueck, ax_person, ax_buchungsblattbezirk,
                   ax_buchungsblatt, ax_anschrift, ax_namensnummer,
                   ax_buchungsstelle, helper_vars>>

\* self.gdf_buf = self.get_flurstueck_geometry(self.xml_bytes);
\* self.xml_bytes = None
GetFlurstueckGeometry ==
    /\ pc = "get_flurstueck_geometry"
    /\ \E r \in get_flurstueck_geometry(xml_bytes, crs_name) :
          IF r.ok
          THEN /\ gdf_buf' = r.value
               /\ xml_bytes' = None
               /\ pc' = "remove_broken_members"
               /\ error' = error
          ELSE /\ error' = r
               /\ pc' = "failed"
               /\ UNCHANGED <<gdf_buf, xml_bytes>>
    /\ UNCHANGED <<doc, namespaces, xml_root, crs_name, current_crs,
                   ax_flurstueck, ax_person, ax_buchungsblattbezirk,
                   ax_buchungsblatt, ax_anschrift, ax_namensnummer,
                   ax_buchungsstelle, helper_vars>>

\* self.remove_broken_members()
RemoveBrokenMembers ==
    /\ pc = "remove_broken_members"
    /\ xml_root' = remove_broken_members(xml_root, namespaces)
    /\ pc' = "get_ax_flurstueck_data"
    /\ UNCHANGED <<doc, error, xml_bytes, namespaces, crs_name,
                   current_crs, gdf_buf, ax_flurstueck, ax_person,
                   ax_buchungsblattbezirk, ax_buchungsblatt, ax_anschrift,
                   ax_namensnummer, ax_buchungsstelle, helper_vars>>

\* self.ax_flurstueck = self.get_ax_flurstueck_data()
GetAxFlurstueckData ==
    /\ pc = "get_ax_flurstueck_data"
    /\ LET r == get_ax_flurstueck_data(xml_root, namespaces, gdf_buf)
       IN  IF r.ok
           THEN /\ ax_flurstueck' = r.value
                /\ pc' = "get_ax_person_data"
                /\ error' = error
           ELSE /\ error' = r
                /\ pc' = "failed"
                /\ UNCHANGED ax_flurstueck
    /\ UNCHANGED <<doc, xml_bytes, namespaces, xml_root, crs_name,
                   current_crs, gdf_buf, ax_person, ax_buchungsblattbezirk,
                   ax_buchungsblatt, ax_anschrift, ax_namensnummer,
                   ax_buchungsstelle, helper_vars>>

\* self.ax_person = self.get_ax_person_data()
GetAxPersonData ==
    /\ pc = "get_ax_person_data"
    /\ LET r == get_ax_person_data(xml_root, namespaces)
       IN  IF r.ok
           THEN /\ ax_person' = r.value
                /\ pc' = "get_ax_buchungsblattbezirk_data"
                /\ error' = error
           ELSE /\ error' = r
                /\ pc' = "failed"
                /\ UNCHANGED ax_person
    /\ UNCHANGED <<doc, xml_bytes, namespaces, xml_root, crs_name,
                   current_crs, gdf_buf, ax_flurstueck,
                   ax_buchungsblattbezirk, ax_buchungsblatt, ax_anschrift,
                   ax_namensnummer, ax_buchungsstelle, helper_vars>>

\* self.ax_buchungsblattbezirk = self.get_ax_buchungsblattbezirk_data()
GetAxBuchungsblattbezirkData ==
    /\ pc = "get_ax_buchungsblattbezirk_data"
    /\ LET r == get_ax_buchungsblattbezirk_data(xml_root, namespaces)
       IN  IF r.ok
           THEN /\ ax_buchungsblattbezirk' = r.value
                /\ pc' = "get_ax_buchungsblatt_data"
                /\ error' = error
           ELSE /\ error' = r
                /\ pc' = "failed"
                /\ UNCHANGED ax_buchungsblattbezirk
    /\ UNCHANGED <<doc, xml_bytes, namespaces, xml_root, crs_name,
                   current_crs, gdf_buf, ax_flurstueck, ax_person,
                   ax_buchungsblatt, ax_anschrift, ax_namensnummer,
                   ax_buchungsstelle, helper_vars>>

\* self.ax_buchungsblatt = self.get_ax_buchungsblatt_data()
GetAxBuchungsblattData ==
    /\ pc = "get_ax_buchungsblatt_data"
    /\ LET r == get_ax_buchungsblatt_data(xml_root, namespaces)
       IN  IF r.ok
           THEN /\ ax_buchungsblatt' = r.value
                /\ pc' = "get_ax_anschrift_data"
                /\ error' = error
           ELSE /\ error' = r
                /\ pc' = "failed"
                /\ UNCHANGED ax_buchungsblatt
    /\ UNCHANGED <<doc, xml_bytes, namespaces, xml_root, crs_name,
                   current_crs, gdf_buf, ax_flurstueck, ax_person,
                   ax_buchungsblattbezirk, ax_anschrift, ax_namensnummer,
                   ax_buchungsstelle, helper_vars>>

\* self.ax_anschrift = self.get_ax_anschrift_data()
GetAxAnschriftData ==
    /\ pc = "get_ax_anschrift_data"
    /\ LET r == get_ax_anschrift_data(xml_root, namespaces)
       IN  IF r.ok
           THEN /\ ax_anschrift' = r.value
                /\ pc' = "get_ax_namensnummer_data"
                /\ error' = error
           ELSE /\ error' = r
                /\ pc' = "failed"
                /\ UNCHANGED ax_anschrift
    /\ UNCHANGED <<doc, xml_bytes, namespaces, xml_root, crs_name,
                   current_crs, gdf_buf, ax_flurstueck, ax_person,
                   ax_buchungsblattbezirk, ax_buchungsblatt,
                   ax_namensnummer, ax_buchungsstelle, helper_vars>>

\* self.ax_namensnummer = self.get_ax_namensnummer_data()
GetAxNamensnummerData ==
    /\ pc = "get_ax_namensnummer_data"
    /\ LET r == get_ax_namensnummer_data(xml_root, namespaces)
       IN  IF r.ok
           THEN /\ ax_namensnummer' = r.value
                /\ pc' = "get_ax_buchungsstelle_data"
                /\ error' = error
           ELSE /\ error' = r
                /\ pc' = "failed"
                /\ UNCHANGED ax_namensnummer
    /\ UNCHANGED <<doc, xml_bytes, namespaces, xml_root, crs_name,
                   current_crs, gdf_buf, ax_flurstueck, ax_person,
                   ax_buchungsblattbezirk, ax_buchungsblatt, ax_anschrift,
                   ax_buchungsstelle, helper_vars>>

\* A last step that leaves the interim geometry table in place.
GetAxBuchungsstelleData_KeepsBuffer ==
    /\ pc = "get_ax_buchungsstelle_data"
    /\ LET r == get_ax_buchungsstelle_data(xml_root, namespaces)
       IN  IF r.ok
           THEN /\ ax_buchungsstelle' = r.value
                /\ pc' = "done"
                /\ error' = error
           ELSE /\ error' = r
                /\ pc' = "failed"
                /\ UNCHANGED ax_buchungsstelle
    /\ UNCHANGED <<doc, xml_bytes, namespaces, xml_root, crs_name,
                   current_crs, gdf_buf, ax_flurstueck, ax_person,
                   ax_buchungsblattbezirk, ax_buchungsblatt, ax_anschrift,
                   ax_namensnummer, helper_vars>>

\* self.ax_buchungsstelle = self.get_ax_buchungsstelle_data();
\* self.gdf_buf = None
GetAxBuchungsstelleData ==
    /\ pc = "get_ax_buchungsstelle_data"
    /\ LET r == get_ax_buchungsstelle_data(xml_root, namespaces)
       IN  IF r.ok
           THEN /\ ax_buchungsstelle' = r.value
                /\ gdf_buf' = None
                /\ pc' = "done"
                /\ error' = error
           ELSE /\ error' = r
                /\ pc' = "failed"
                /\ UNCHANGED <<ax_buchungsstelle, gdf_buf>>
    /\ UNCHANGED <<doc, xml_bytes, namespaces, xml_root, crs_name,
                   current_crs, ax_flurstueck, ax_person,
                   ax_buchungsblattbezirk, ax_buchungsblatt, ax_anschrift,
                   ax_namensnummer, helper_vars>>

Next ==
    \/ GetNamespaces
    \/ ParseXmlFile
    \/ ExtractOriginalCrsFromXml
    \/ GetFlurstueckGeometry
    \/ RemoveBrokenMembers
    \/ GetAxFlurstueckData
    \/ GetAxPersonData
    \/ GetAxBuchungsblattbezirkData
    \/ GetAxBuchungsblattData
    \/ GetAxAnschriftData
    \/ GetAxNamensnummerData
    \/ GetAxBuchungsstelleData

Spec == Init /\ [][Next]_vars

---------------------------------------------------------------------------
(* The sanitizer on its own: remove_broken_members on an object whose tree
   and namespaces are set, as the tests run it with the other steps
   patched out. *)

MaxMembers == 3

PADDED_POS == <<" ","4","2","\n">>
BLANK_POS == <<" ">>

\* The position elements of a container: none, well-formed, of a single
\* coordinate (first, last, alone, with whitespace around), without text and
\* of whitespace only.
PosLists ==
    {<<>>, <<GOOD_POS>>, <<SINGLE_POS>>, <<GOOD_POS, SINGLE_POS>>,
     <<SINGLE_POS, GOOD_POS>>, <<PADDED_POS>>, <<None>>, <<BLANK_POS>>}

SanitizerShapes ==
    {[c |-> c, id |-> "urn", pos |-> pos, full |-> FALSE, x |-> ""] :
        c \in {"member", "featureMember"}, pos \in PosLists}

SanitizerDocuments ==
    {Document(DefaultNs, <<>>,
              [t \in EntitySet |->
                  IF t = "AX_Flurstueck" THEN shapes ELSE <<>>]) :
        shapes \in SeqsUpTo(SanitizerShapes, MaxMembers)}

InitSanitizer ==
    /\ doc \in SanitizerDocuments
    /\ xml_bytes = None
    /\ pc = "remove_broken_members"
    /\ error = NoError
    /\ namespaces = get_namespaces(StartNs(doc))
    /\ xml_root = Parsed(doc)
    /\ crs_name = None
    /\ current_crs = None
    /\ gdf_buf = Unset
    /\ ax_flurstueck = Unset
    /\ ax_person = Unset
    /\ ax_buchungsblattbezirk = Unset
    /\ ax_buchungsblatt = Unset
    /\ ax_anschrift = Unset
    /\ ax_namensnummer = Unset
    /\ ax_buchungsstelle = Unset
    /\ h_fn = NoHelper
    /\ h_arg = None
    /\ h_ret = <<>>

SpecSanitizer == InitSanitizer /\ [][RemoveBrokenMembers]_vars

---------------------------------------------------------------------------
(* get_namespaces on its own: the start-ns events of a document *)

MaxDeclarations == 3

\* The declarations a document can make: the default namespace and three
\* prefixes, each with a known schema version or another namespace. A
\* prefix that occurs twice in a list is declared again on a nested
\* element.
DeclaredPrefixes == {"", "ax", "adv", "gml"}
DeclaredUris == {AX_7_1, AX_6_0, GML_NS}
NamespaceLists == SeqsUpTo(DeclaredPrefixes \X DeclaredUris, MaxDeclarations)

NamespaceDocuments ==
    {BytesIO(start_ns, Node(AX_7_1, "AX_Bestandsdatenauszug", <<>>)) :
        start_ns \in NamespaceLists}

InitNamespaces ==
    /\ doc \in NamespaceDocuments
    /\ xml_bytes = doc
    /\ pc = "get_namespaces"
    /\ error = NoError
    /\ namespaces = Unset
    /\ xml_root = NoElement
    /\ crs_name = Unset
    /\ current_crs = Unset
    /\ gdf_buf = Unset
    /\ ax_flurstueck = Unset
    /\ ax_person = Unset
    /\ ax_buchungsblattbezirk = Unset
    /\ ax_buchungsblatt = Unset
    /\ ax_anschrift = Unset
    /\ ax_namensnummer = Unset
    /\ ax_buchungsstelle = Unset
    /\ h_fn = NoHelper
    /\ h_arg = None
    /\ h_ret = <<>>

SpecNamespaces == InitNamespaces /\ [][GetNamespaces]_vars

---------------------------------------------------------------------------
(* The helpers on their own: one call, or for the prefix helpers a chain  *)
(* of calls each on the result of the one before.                         *)

MaxPieces == 4
MaxApply == 2
MaxZone == 60
MaxStampItems == 4


PrefixPieces ==
    { ID_NAMESPACE, CRS_NAMESPACE, <<"u","r","n",":","a","d","v",":">>,
      <<"o","i","d",":">>, <<"c","r","s",":">>, <<"X">> }

PrefixInputs == {Flatten(ps) : ps \in SeqsUpTo(PrefixPieces, MaxPieces)}

CrsLetters == <<"E","T","R","S","8","9","_","U","T","M">>
LowerOf(c) == Fold(c)

\* The spellings of ETRS89_UTM: each letter in upper or lower case.
CrsSpellings ==
    { [i \in 1..Len(CrsLetters) |->
          IF up[i] THEN CrsLetters[i] ELSE LowerOf(CrsLetters[i])] :
      up \in [1..Len(CrsLetters) -> BOOLEAN] }

CrsInputs ==
    { (IF sep = "_" THEN sp ELSE [sp EXCEPT ![7] = sep]) \o zone \o tail :
        sp \in CrsSpellings,
        sep \in {"_", "-"},
        zone \in {Decimal(n) : n \in 0..MaxZone} \cup {<<>>},
        tail \in {<<>>, <<"\n">>, <<" ">>, <<"\n", "\n">>} }

StampItems ==
    IsoDates \cup IsoTimes \cup {"T", "Z", "+00:00", "not-a-datetime"}

\* No ax:beginnt element, one without text, or one with a text.
StampInputs ==
    {NoStamp, None} \cup SeqsUpTo(StampItems, MaxStampItems)

HelperCalls ==
    ({"remove_gml_id_prefix", "remove_crs_prefix"} \X PrefixInputs)
    \cup ({"format_crs_name"} \X CrsInputs)
    \cup ({"get_aa_lebenszeitintervall_beginnt"}
            \X {[alkis_member |->
                    Node(AX_7_1, "AX_Flurstueck", Lifetime(AX_7_1, t)),
                 namespaces |-> ("ax" :> AX_7_1),
                 beginnt |-> t] : t \in StampInputs})

\* No construction is running.
CtorIdle ==
    /\ doc = None /\ pc = "idle" /\ error = NoError /\ xml_bytes = None /\ namespaces = None
    /\ xml_root = None /\ crs_name = None /\ current_crs = None
    /\ gdf_buf = None
    /\ ax_flurstueck = None /\ ax_person = None
    /\ ax_buchungsblattbezirk = None /\ ax_buchungsblatt = None
    /\ ax_anschrift = None /\ ax_namensnummer = None
    /\ ax_buchungsstelle = None

InitHelpers ==
    /\ CtorIdle
    /\ \E c \in HelperCalls : h_fn = c[1] /\ h_arg = c[2]
    /\ h_ret = <<>>

LastArg == IF h_ret = <<>> THEN h_arg ELSE h_ret[Len(h_ret)]

CallRemoveGmlIdPrefix ==
    /\ h_fn = "remove_gml_id_prefix" /\ Len(h_ret) < MaxApply
    /\ h_ret' = Append(h_ret, remove_gml_id_prefix(LastArg))
    /\ UNCHANGED <<ctor_vars, h_fn, h_arg>>

CallRemoveCrsPrefix ==
    /\ h_fn = "remove_crs_prefix" /\ Len(h_ret) < MaxApply
    /\ h_ret' = Append(h_ret, remove_crs_prefix(LastArg))
    /\ UNCHANGED <<ctor_vars, h_fn, h_arg>>

CallFormatCrsName ==
    /\ h_fn = "format_crs_name" /\ h_ret = <<>>
    /\ h_ret' = <<format_crs_name(h_arg)>>
    /\ UNCHANGED <<ctor_vars, h_fn, h_arg>>

CallGetBeginnt ==
    /\ h_fn = "get_aa_lebenszeitintervall_beginnt" /\ h_ret = <<>>
    /\ h_ret' = <<get_aa_lebenszeitintervall_beginnt(h_arg.alkis_member,
                                                     h_arg.namespaces)>>
    /\ UNCHANGED <<ctor_vars, h_fn, h_arg>>

NextHelpers ==
    \/ CallRemoveGmlIdPrefix
    \/ CallRemoveCrsPrefix
    \/ CallFormatCrsName
    \/ CallGetBeginnt

SpecHelpers == InitHelpers /\ [][NextHelpers]_vars

---------------------------------------------------------------------------
(* Claims about the helpers, checked under SpecHelpers *)

IsPrefixHelper == h_fn \in {"remove_gml_id_prefix", "remove_crs_prefix"}
HelperPrefix ==
    IF h_fn = "remove_gml_id_prefix" THEN ID_NAMESPACE ELSE CRS_NAMESPACE

\* C5: stripping a prefix twice gives what stripping it once gives, for
\* remove_gml_id_prefix and for remove_crs_prefix.
C5_StripIdempotent ==
    (IsPrefixHelper /\ Len(h_ret) >= 2) => h_ret[2] = h_ret[1]

\* C6: a string that starts with the prefix comes back as exactly the rest
\* after that one leading prefix; any other string comes back unchanged.
C6_StripOnlyLeadingPrefix ==
    (IsPrefixHelper /\ Len(h_ret) >= 1) =>
        IF StartsWith(h_arg, HelperPrefix)
        THEN h_ret[1] = SubSeq(h_arg, Len(HelperPrefix) + 1, Len(h_arg))
        ELSE h_ret[1] = h_arg

\* Whether s is ETRS89_UTM<digits> in full, in any upper/lower-case spelling.
CrsFullMatch(s) ==
    /\ Len(s) > Len(CrsLetters)
    /\ SubSeq(s, 1, Len(CrsLetters)) \in CrsSpellings
    /\ \A i \in (Len(CrsLetters) + 1)..Len(s) : s[i] \in Digit

CanonicalCrsName(n) ==
    <<"E","T","R","S","8","9"," ","/"," ","U","T","M"," ","z","o","n","e"," ">>
        \o Decimal(n) \o <<"N">>

\* C7: every spelling of ETRS89_UTM<n>, n in 1..60, gives the canonical
\* name of zone n; every string that is not ETRS89_UTM<digits> in full
\* raises a format error whose message contains the string (as repr writes
\* it), and returns nothing.
C7_FormatCrsNameTotal ==
    (h_fn = "format_crs_name" /\ h_ret # <<>>) =>
        /\ \A n \in 1..MaxZone, sp \in CrsSpellings :
              h_arg = sp \o Decimal(n) =>
                  h_ret[1] = Returned(CanonicalCrsName(n))
        /\ ~CrsFullMatch(h_arg) =>
              /\ ~h_ret[1].ok
              /\ h_ret[1].exc = "ValueError"
              /\ Contains(h_ret[1].msg, Escaped(h_arg))

\* A timestamp text that is an instant written with a final Z.
IsZuluInstant(t) ==
    /\ Len(t) = 4 /\ t[1] \in IsoDates /\ t[2] = "T" /\ t[3] \in IsoTimes
    /\ t[4] = "Z"

\* A well-formed timestamp text: a date, optionally a time of day,
\* optionally an offset or Z.
IsStampText(t) ==
    \/ Len(t) = 1 /\ t[1] \in IsoDates
    \/ Len(t) = 3 /\ t[1] \in IsoDates /\ t[2] = "T" /\ t[3] \in IsoTimes
    \/ /\ Len(t) = 4 /\ t[1] \in IsoDates /\ t[2] = "T" /\ t[3] \in IsoTimes
       /\ t[4] \in IsoOffsets \cup {"Z"}

---------------------------------------------------------------------------
(* Claims about construction, checked under Spec and SpecSanitizer *)

\* The elements named name in a tree, in document order.
ElementsNamed(root, name) ==
    SelectSeq(<<root>> \o Descendants(root), LAMBDA e : e.tag.name = name)

\* The texts of the gml:pos elements below an element.
PosTexts(el) ==
    MapSeq(SelectSeq(Descendants(el), LAMBDA d :
               d.tag = [ns |-> GML_NS, name |-> "pos"]),
           LAMBDA d : d.text)

HasIdentifier(el) ==
    \E i \in 1..Len(el.children) :
        el.children[i].tag = [ns |-> GML_NS, name |-> "identifier"]

\* The document holds the two parcels of the test document, both in the
\* geometry layer, and an element of every other entity type.
TwoParcelDocument ==
    LET parcels == ElementsNamed(Parsed(doc), "AX_Flurstueck")
    IN  /\ Len(parcels) = 2
        /\ AttribGet(parcels[1], GML_ID) = ID_NAMESPACE \o <<"1","2","3">>
        /\ PosTexts(parcels[1]) = <<GOOD_POS>>
        /\ AttribGet(parcels[2], GML_ID) = ID_NAMESPACE \o <<"9","9","9">>
        /\ PosTexts(parcels[2]) = <<SINGLE_POS>>
        /\ HasIdentifier(parcels[1]) /\ HasIdentifier(parcels[2])
        /\ \A t \in EntitySet : ElementsNamed(Parsed(doc), t) # <<>>

\* C1: construction from the two-parcel document (ids urn:adv:oid:123 with
\* position '10 20' and urn:adv:oid:999 with position '42', both in the
\* geometry layer, every other type present) ends with a Parcel table of
\* exactly one row: id 123, with its geometry and its scalar fields.
C1_TwoParcelEndToEnd ==
    (pc = "done" /\ TwoParcelDocument) =>
        /\ Len(Rows(ax_flurstueck)) = 1
        /\ Rows(ax_flurstueck)[1].ax_flurstueck_id = <<"1","2","3">>
        /\ Rows(ax_flurstueck)[1].geometry = <<GOOD_POS>>
        /\ "flurstueckskennzeichen" \in DOMAIN Rows(ax_flurstueck)[1]

\* The tables with the name of their own id column.
OwnIds(t) ==
    CASE t = "AX_Flurstueck" ->
            MapSeq(Rows(ax_flurstueck), LAMBDA r : r.ax_flurstueck_id)
      [] t = "AX_Person" ->
            MapSeq(Rows(ax_person), LAMBDA r : r.ax_person_id)
      [] t = "AX_Buchungsblattbezirk" ->
            MapSeq(Rows(ax_buchungsblattbezirk),
                   LAMBDA r : r.ax_buchungsblattbezirk_id)
      [] t = "AX_Buchungsblatt" ->
            MapSeq(Rows(ax_buchungsblatt), LAMBDA r : r.ax_buchungsblatt_id)
      [] t = "AX_Anschrift" ->
            MapSeq(Rows(ax_anschrift), LAMBDA r : r.ax_anschrift_id)
      [] t = "AX_Namensnummer" ->
            MapSeq(Rows(ax_namensnummer), LAMBDA r : r.ax_namensnummer_id)
      [] t = "AX_Buchungsstelle" ->
            MapSeq(Rows(ax_buchungsstelle), LAMBDA r : r.ax_buchungsstelle_id)

TableOf(t) ==
    <<ax_flurstueck, ax_person, ax_buchungsblattbezirk, ax_buchungsblatt,
      ax_anschrift, ax_namensnummer, ax_buchungsstelle>>[EntityIndex(t)]

\* A gml:id without one leading id prefix.
WithoutIdPrefix(id) ==
    IF Len(id) >= Len(ID_NAMESPACE)
       /\ SubSeq(id, 1, Len(ID_NAMESPACE)) = ID_NAMESPACE
    THEN SubSeq(id, Len(ID_NAMESPACE) + 1, Len(id))
    ELSE id

\* C2: in each of the seven tables the value of the own id column is the
\* gml:id of an element of that type without its leading urn:adv:oid:
\* prefix, and never starts with that prefix.
C2_OwnIdsArePrefixFree ==
    \A t \in EntitySet :
        TableOf(t) # Unset =>
            \A i \in 1..Len(OwnIds(t)) :
                /\ \E e \in {ElementsNamed(xml_root, t)[k] :
                               k \in 1..Len(ElementsNamed(xml_root, t))} :
                      /\ GML_ID \in DOMAIN e.attrib
                      /\ OwnIds(t)[i] = WithoutIdPrefix(e.attrib[GML_ID])
                /\ ~StartsWith(OwnIds(t)[i], ID_NAMESPACE)

\* The rows an extractor assembles; for the parcels the scalar table before
\* the join with the geometry.
AssembledRows(t) ==
    IF t = "AX_Flurstueck"
    THEN FlurstueckScalars(EntityElements(xml_root, t, namespaces), namespaces)
    ELSE Rows(TableOf(t))

\* The matched elements of a type that carry a gml:id.
MatchedWithId(t) ==
    SelectSeq(EntityElements(xml_root, t, namespaces),
              LAMBDA e : GML_ID \in DOMAIN e.attrib)

\* C3: each extractor assembles as many rows as it matched elements that
\* carry a gml:id; a matched element without gml:id gives no row.
C3_OneRowPerElementWithId ==
    \A t \in EntitySet :
        TableOf(t) # Unset =>
            Len(AssembledRows(t)) = Len(MatchedWithId(t))

\* The namespace the prefix ax stands for once the namespaces are resolved;
\* no namespace when the prefix is not bound.
AxUri == IF "ax" \in DOMAIN namespaces THEN namespaces["ax"] ELSE ""

\* The feature containers of a document: the children of
\* ax:enthaelt/wfs:FeatureCollection, in document order.
CollectionChildren(root) ==
    Flatten(MapSeq(SelectSeq(ElementsNamed(root, "enthaelt"),
                             LAMBDA e : e.tag.ns = AxUri), LAMBDA e :
        Flatten(MapSeq(
            SelectSeq(e.children, LAMBDA c :
                c.tag = [ns |-> WFS_NS, name |-> "FeatureCollection"]),
            LAMBDA c : c.children))))

IsWfsMember(c) == c.tag = [ns |-> WFS_NS, name |-> "member"]
IsGmlFeatureMember(c) == c.tag = [ns |-> GML_NS, name |-> "featureMember"]

\* Whether the sanitizer scans a container of the document: the wfs:member
\* containers, or the gml:featureMember ones in a document without
\* wfs:member.
IsScanned(root, c) ==
    IF \E i \in 1..Len(CollectionChildren(root)) :
           IsWfsMember(CollectionChildren(root)[i])
    THEN IsWfsMember(c)
    ELSE IsGmlFeatureMember(c)

\* The number of whitespace-delimited tokens of a text: the places where a
\* token starts.
TokenCount(text) ==
    Cardinality({i \in 1..Len(text) :
        /\ text[i] \notin Whitespace
        /\ (i = 1 \/ text[i - 1] \in Whitespace)})

HasSingleTokenPos(c) ==
    \E i \in 1..Len(PosTexts(c)) :
        PosTexts(c)[i] # None /\ TokenCount(PosTexts(c)[i]) = 1

Sanitized ==
    pc \notin {"get_namespaces", "parse_xml_file",
               "extract_original_crs_from_xml", "get_flurstueck_geometry",
               "remove_broken_members"}
        /\ (pc = "failed" => gdf_buf # Unset)

\* C4: after remove_broken_members a scanned container is gone from the
\* tree exactly if one of its gml:pos texts has exactly one token; the
\* other containers are there as they were, in their order.
C4_RemovesExactlySingleTokenContainers ==
    Sanitized =>
        CollectionChildren(xml_root)
            = SelectSeq(CollectionChildren(Parsed(doc)), LAMBDA c :
                  ~(IsScanned(Parsed(doc), c) /\ HasSingleTokenPos(c)))

\* A container went, two stayed, and a scanned container with a position
\* of whitespace only is among those that stayed.
C4_Witness ==
    /\ Sanitized
    /\ Len(CollectionChildren(Parsed(doc))) = 3
    /\ Len(CollectionChildren(xml_root)) = 2
    /\ \E i \in 1..2 :
          /\ IsScanned(Parsed(doc), CollectionChildren(xml_root)[i])
          /\ PosTexts(CollectionChildren(xml_root)[i]) = <<BLANK_POS>>

\* The text of the zaehler or nenner of a name entry, None without one.
AnteilText(namensnummer, name) ==
    LET inner == Flatten(MapSeq(
                    SelectSeq(namensnummer.children,
                              LAMBDA c : c.tag.name = "anteil"),
                    LAMBDA c : SelectSeq(c.children,
                                  LAMBDA d : d.tag.name = "AX_Anteil")))
        found == Flatten(MapSeq(inner, LAMBDA d :
                    SelectSeq(d.children, LAMBDA e : e.tag.name = name)))
    IN  IF found = <<>> THEN None ELSE found[1].text

IsNumber(text) ==
    text # None /\ text # <<>> /\ \A i \in 1..Len(text) : text[i] \in Digit

\* The name entries that give a row, in the order of their rows.
NamensnummerWithRow ==
    SelectSeq(EntityElements(xml_root, "AX_Namensnummer", namespaces),
              LAMBDA e : Truthy(AttribGet(e, GML_ID)))

\* C9: the anteil of every Name Entry row is zaehler/nenner of its own
\* element when both are there and nenner is not zero, and 1.0 when one of
\* the two is missing, whatever the other elements hold.
C9_AnteilIsOwnRatio ==
    ax_namensnummer # Unset =>
        /\ Len(Rows(ax_namensnummer)) = Len(NamensnummerWithRow)
        /\ \A i \in 1..Len(NamensnummerWithRow) :
              LET z == AnteilText(NamensnummerWithRow[i], "zaehler")
                  n == AnteilText(NamensnummerWithRow[i], "nenner")
                  anteil == Rows(ax_namensnummer)[i].anteil
              IN  /\ (z = None \/ n = None) => anteil = <<"float", 1, 1>>
                  /\ (IsNumber(z) /\ IsNumber(n) /\ DecimalValue(n) # 0) =>
                        /\ anteil[1] = "float" /\ anteil[3] > 0
                        /\ anteil[2] * DecimalValue(n)
                              = DecimalValue(z) * anteil[3]

\* Two rows: 1 over 2 gives 0.5, and an entry after it without nenner
\* gives 1.0.
C9_Witness ==
    /\ ax_namensnummer # Unset
    /\ Len(Rows(ax_namensnummer)) = 2
    /\ AnteilText(NamensnummerWithRow[1], "zaehler") = <<"1">>
    /\ AnteilText(NamensnummerWithRow[1], "nenner") = <<"2">>
    /\ Rows(ax_namensnummer)[1].anteil = <<"float", 1, 2>>
    /\ AnteilText(NamensnummerWithRow[2], "zaehler") = <<"1">>
    /\ AnteilText(NamensnummerWithRow[2], "nenner") = None
    /\ Rows(ax_namensnummer)[2].anteil = <<"float", 1, 1>>

\* The containers the sanitizer leaves in a document.
SanitizedContainers ==
    LET all == CollectionChildren(Parsed(doc))
        wfs == \E i \in 1..Len(all) : IsWfsMember(all[i])
    IN  SelectSeq(all, LAMBDA c :
            ~(HasSingleTokenPos(c)
                /\ IF wfs THEN IsWfsMember(c) ELSE IsGmlFeatureMember(c)))

\* The tags of the features in the containers the extractors look into.
SanitizedFeatureTags ==
    LET members == SelectSeq(SanitizedContainers, LAMBDA c :
                       IsWfsMember(c) \/ IsGmlFeatureMember(c))
    IN  UNION {{members[i].children[k].tag : k \in 1..Len(members[i].children)} :
               i \in 1..Len(members)}

\* The entity types the sanitized document has no element of, neither
\* under wfs:member nor under gml:featureMember.
MissingTypes ==
    LET tags == SanitizedFeatureTags
    IN  {t \in EntitySet : [ns |-> AxUri, name |-> t] \notin tags}

\* The not-found error that names entity type t.
NotFoundError(t) ==
    [ok |-> FALSE, exc |-> "ValueError",
     msg |-> <<"No ", t, " elements found in the provided XML file.">>]

Terminated == pc \in {"done", "failed"}

\* C10 as stated, for the constructions that come as far as the
\* extractors: for each entity type the sanitized document lacks,
\* construction fails with the not-found error that names that type, and
\* gives no object; with every type matched no not-found error is raised.
C10_NotFoundForEveryMissingType ==
    (Terminated /\ gdf_buf # Unset) =>
        LET missing == MissingTypes
        IN  /\ \A t \in missing : pc = "failed" /\ error = NotFoundError(t)
            /\ missing = {} => \A t \in EntitySet : error # NotFoundError(t)

\* The type of a set whose extractor runs first.
First(types) ==
    CHOOSE t \in types : \A u \in types : EntityIndex(t) <= EntityIndex(u)

\* Every step before the extractor of type t has succeeded.
ReachedExtractor(t) ==
    /\ gdf_buf # Unset
    /\ \A u \in EntitySet : EntityIndex(u) < EntityIndex(t) => TableOf(u) # Unset

\* C10 as the code has it: when the sanitized document lacks an entity
\* type, construction fails and gives no object; the error is the
\* not-found error naming the first missing type in extraction order,
\* unless a step before that extractor has failed already; a not-found
\* error never names a type that has a match.
C10_FailsNamingFirstMissingType ==
    Terminated =>
        LET missing == MissingTypes
        IN  /\ missing # {} =>
                  /\ pc = "failed"
                  /\ ReachedExtractor(First(missing)) =>
                        error = NotFoundError(First(missing))
            /\ \A t \in EntitySet :
                  error = NotFoundError(t) =>
                      t \in missing /\ t = First(missing)

\* Two types are missing and the error names the first of them.
C10_Witness ==
    /\ pc = "failed"
    /\ Cardinality(MissingTypes) = 2
    /\ error = NotFoundError(First(MissingTypes))


\* The rows the loop of the extractor of type t gives for a list of
\* matched elements (for the parcels the scalar table before the join).
RowsOf(t, elements, ns) ==
    CASE t = "AX_Flurstueck" ->
            Returned(DataFrame(FlurstueckScalars(elements, ns)))
      [] t = "AX_Person" -> PersonLoop(elements, PersonLocals0, <<>>, ns)
      [] t = "AX_Buchungsblattbezirk" ->
            Returned(DataFrame(
                MapSeq(elements, LAMBDA e : BuchungsblattbezirkRow(e, ns))))
      [] t = "AX_Buchungsblatt" ->
            Returned(DataFrame(
                MapSeq(elements, LAMBDA e : BuchungsblattRow(e, ns))))
      [] t = "AX_Anschrift" ->
            Returned(DataFrame(
                MapSeq(SelectSeq(elements,
                           LAMBDA e : Truthy(AttribGet(e, GML_ID))),
                       LAMBDA e : AnschriftRow(e, ns))))
      [] t = "AX_Namensnummer" -> NamensnummerLoop(elements, <<>>, ns)
      [] t = "AX_Buchungsstelle" ->
            BuchungsstelleLoop(elements, Unset, <<>>, ns)

\* The extractor of type t has run: it gave its table or failed.
ExtractorRan(t) ==
    /\ ReachedExtractor(t)
    /\ TableOf(t) # Unset
       \/ (pc = "failed"
             /\ \A u \in EntitySet :
                   EntityIndex(u) >= EntityIndex(t) => TableOf(u) = Unset)

HasGmlId(e) == GML_ID \in DOMAIN e.attrib

\* C11: in each of the seven extractors a matched element without gml:id
\* is a local, non-fatal defect: wherever it stands among the matched
\* elements, the extractor completes, and its rows are the rows it gives
\* for the other matched elements alone.
C11_MissingGmlIdIsNonFatal ==
    \A t \in EntitySet :
        ExtractorRan(t) =>
            LET elements == EntityElements(xml_root, t, namespaces)
                others == SelectSeq(elements, HasGmlId)
                alone == RowsOf(t, others, namespaces)
            IN  (others # elements /\ alone.ok) =>
                    /\ TableOf(t) # Unset
                    /\ AssembledRows(t) = Rows(alone.value)

\* The optional columns of each table, each with the name of the child of
\* the row's element it is read from (the first step of its path).
OptionalFields(t) ==
    LET stamp == <<"aa_lebenszeitintervall_beginnt", "lebenszeitintervall">>
    IN  CASE t = "AX_Flurstueck" ->
            {<<"flurstueckskennzeichen", "flurstueckskennzeichen">>,
             <<"amtliche_flaeche", "amtlicheFlaeche">>,
             <<"ax_buchungsstelle_id", "istGebucht">>,
             <<"ax_lagebezeichnung_ohne_hausnummer_id", "zeigtAuf">>,
             <<"zeitpunktDerEntstehung", "zeitpunktDerEntstehung">>, stamp}
      [] t = "AX_Person" ->
            {<<"nachname_oder_firma", "nachnameOderFirma">>,
             <<"vorname", "vorname">>, <<"anrede", "anrede">>,
             <<"namensbestandteil", "namensbestandteil">>,
             <<"akademischer_grad", "akademischerGrad">>,
             <<"geburtsname", "geburtsname">>,
             <<"geburtsdatum", "geburtsdatum">>,
             <<"ax_anschrift_id", "hat">>, <<"anlass", "anlass">>, stamp}
      [] t = "AX_Buchungsblattbezirk" ->
            {<<"schluessel_gesamt", "schluesselGesamt">>,
             <<"bbz_bezeichnung", "bezeichnung">>,
             <<"ax_buchungsblattbezirk_schluessel_land", "schluessel">>,
             <<"ax_buchungsblattbezirk_schluessel_bezirk", "schluessel">>,
             <<"gehoert_zu_ax_dienststelle_schluessel_stelle", "gehoertZu">>,
             <<"ax_dienststelle_schluessel_land", "gehoertZu">>,
             <<"ax_dienststelle_schluessel_stelle", "gehoertZu">>,
             <<"anlass", "anlass">>, stamp}
      [] t = "AX_Buchungsblatt" ->
            {<<"buchungsblattkennzeichen", "buchungsblattkennzeichen">>,
             <<"land", "buchungsblattbezirk">>,
             <<"bezirk", "buchungsblattbezirk">>,
             <<"schluessel_gesamt", "buchungsblattbezirk">>,
             <<"blattart", "blattart">>,
             <<"buchungsblattnummer_mit_buchstabenerweiterung",
               "buchungsblattnummerMitBuchstabenerweiterung">>,
             <<"anlass", "anlass">>, stamp}
      [] t = "AX_Anschrift" ->
            {<<"ort_post", "ort_Post">>,
             <<"postleitzahl_postzustellung", "postleitzahlPostzustellung">>,
             <<"strasse", "strasse">>, <<"hausnummer", "hausnummer">>,
             <<"ortsteil", "ortsteil">>, <<"anlass", "anlass">>,
             <<"tel", "TEL">>, <<"weitere_adressen", "weitereAdressen">>,
             stamp}
      [] t = "AX_Namensnummer" ->
            {<<"ax_person_id", "benennt">>,
             <<"laufende_nummer", "laufendeNummerNachDIN1421">>,
             <<"ax_buchungsblatt_id", "istBestandteilVon">>,
             <<"anlass", "anlass">>,
             <<"art_der_rechtsgemeinschaft", "artDerRechtsgemeinschaft">>,
             <<"besteht_aus_rechtsverhaeltnissen_zu",
               "bestehtAusRechtsverhaeltnissenZu">>}
      [] t = "AX_Buchungsstelle" ->
            {<<"buchungsart", "buchungsart">>,
             <<"laufende_nummer", "laufendeNummer">>,
             <<"ax_buchungsblatt_id", "istBestandteilVon">>}

\* The element has a child of that name in the schema namespace.
HasChild(e, name) ==
    \E k \in 1..Len(e.children) :
        e.children[k].tag = [ns |-> AxUri, name |-> name]

\* The text of zaehler or nenner is not a number although both are there.
HasUnparseableAnteil(e) ==
    /\ AnteilText(e, "zaehler") # None
    /\ AnteilText(e, "nenner") # None
    /\ ~IsNumber(AnteilText(e, "zaehler"))
       \/ ~IsNumber(AnteilText(e, "nenner"))
       \/ DecimalValue(AnteilText(e, "nenner")) = 0

\* C12: with every matched element carrying a gml:id (and no share that
\* cannot be computed), the extractor of each type completes with one row
\* per element, and an optional scalar or cross-reference column is None
\* in every row whose own element lacks the child it is read from, also
\* when that element is the first one.
C12_MissingOptionalIsNone ==
    \A t \in EntitySet :
        ExtractorRan(t) =>
            LET elements == EntityElements(xml_root, t, namespaces)
            IN  (/\ elements # <<>>
                 /\ \A i \in 1..Len(elements) :
                       /\ HasGmlId(elements[i])
                       /\ ~HasUnparseableAnteil(elements[i])) =>
                    /\ TableOf(t) # Unset
                    /\ Len(AssembledRows(t)) = Len(elements)
                    /\ \A i \in 1..Len(elements) :
                          \A f \in OptionalFields(t) :
                              ~HasChild(elements[i], f[2]) =>
                                  AssembledRows(t)[i][f[1]] = None

\* The tree holds a container the sanitizer removes: a scanned container
\* with a position of a single coordinate.
HoldsBrokenContainer(root) ==
    \E i \in 1..Len(CollectionChildren(root)) :
        /\ IsScanned(root, CollectionChildren(root)[i])
        /\ HasSingleTokenPos(CollectionChildren(root)[i])

\* C13: the sanitizer completes before geometry decoding starts: the
\* geometry table is never there while remove_broken_members is still to
\* run, and decoding never starts on a document that still holds an
\* unremoved container with a single-coordinate position.
C13_SanitizerBeforeGeometry ==
    /\ pc = "remove_broken_members" => gdf_buf = Unset
    /\ pc = "get_flurstueck_geometry" => ~HoldsBrokenContainer(xml_root)

\* The ids of the rows of a table of parcels.
ParcelIds(rows) == {rows[i].ax_flurstueck_id : i \in 1..Len(rows)}

\* The geometry table is still held (it is dropped when construction ends).
HoldsGeometryTable == gdf_buf # Unset /\ gdf_buf # None

\* C14: the final Parcel table is the inner join of the geometry table and
\* the scalar parcel table on equal ax_flurstueck_id: the extractor gives
\* it without error whenever it matched an element; its ids are the ids
\* the two tables share, it has one row per pair of rows with the same id,
\* and every row carries the geometry of a geometry row and all scalar
\* fields of a scalar row of its own id.
C14_ParcelTableIsInnerJoin ==
    (ExtractorRan("AX_Flurstueck") /\ HoldsGeometryTable
        /\ EntityElements(xml_root, "AX_Flurstueck", namespaces) # <<>>) =>
        /\ ax_flurstueck # Unset
        /\ LET geo == Rows(gdf_buf)
               scalar == AssembledRows("AX_Flurstueck")
               final == Rows(ax_flurstueck)
           IN  /\ ParcelIds(final) = ParcelIds(geo) \cap ParcelIds(scalar)
               /\ Len(final) =
                     Cardinality({<<i, k>> \in
                         (1..Len(geo)) \X (1..Len(scalar)) :
                         geo[i].ax_flurstueck_id = scalar[k].ax_flurstueck_id})
               /\ \A n \in 1..Len(final) :
                     \E i \in 1..Len(geo), k \in 1..Len(scalar) :
                        /\ geo[i].ax_flurstueck_id = final[n].ax_flurstueck_id
                        /\ scalar[k].ax_flurstueck_id
                              = final[n].ax_flurstueck_id
                        /\ final[n].geometry = geo[i].geometry
                        /\ \A f \in DOMAIN scalar[k] :
                              final[n][f] = scalar[k][f]

\* A parcel of both tables is in the final table, one only in the
\* geometry table and one only in the scalar table are dropped.
C14_Witness ==
    /\ pc = "get_ax_person_data"
    /\ Len(Rows(ax_flurstueck)) = 1
    /\ ParcelIds(Rows(gdf_buf)) \ ParcelIds(Rows(ax_flurstueck)) # {}
    /\ ParcelIds(AssembledRows("AX_Flurstueck"))
          \ ParcelIds(Rows(ax_flurstueck)) # {}

\* The cross-reference columns of each table, each with the name of the
\* child whose xlink:href it holds.
CrossReferences(t) ==
    CASE t = "AX_Flurstueck" ->
            {<<"ax_buchungsstelle_id", "istGebucht">>,
             <<"ax_lagebezeichnung_ohne_hausnummer_id", "zeigtAuf">>}
      [] t = "AX_Person" -> {<<"ax_anschrift_id", "hat">>}
      [] t = "AX_Namensnummer" ->
            {<<"ax_person_id", "benennt">>,
             <<"ax_buchungsblatt_id", "istBestandteilVon">>,
             <<"besteht_aus_rechtsverhaeltnissen_zu",
               "bestehtAusRechtsverhaeltnissenZu">>}
      [] t = "AX_Buchungsstelle" ->
            {<<"ax_buchungsblatt_id", "istBestandteilVon">>}
      [] OTHER -> {}

\* The children of an element with a name of the schema namespace.
ChildrenNamed(e, name) ==
    SelectSeq(e.children, LAMBDA c : c.tag = [ns |-> AxUri, name |-> name])

\* C15: in every row (row i belongs to the i-th matched element with a
\* gml:id), a cross-reference column that is not None holds the xlink:href
\* of the named child of the row's own element, without its leading
\* urn:adv:oid: prefix.
C15_CrossReferenceIsOwnStrippedHref ==
    \A t \in EntitySet :
        TableOf(t) # Unset =>
            LET elements == MatchedWithId(t)
                rows == AssembledRows(t)
            IN  Len(rows) = Len(elements) =>
                    \A i \in 1..Len(rows) :
                        \A f \in CrossReferences(t) :
                            rows[i][f[1]] # None =>
                                LET named == ChildrenNamed(elements[i], f[2])
                                IN  /\ named # <<>>
                                    /\ XLINK_HREF \in DOMAIN named[1].attrib
                                    /\ rows[i][f[1]] = WithoutIdPrefix(
                                           named[1].attrib[XLINK_HREF])

\* The CRS declarations of the document, in document order.
Declarations ==
    SelectSeq(ElementsNamed(Parsed(doc),
                            "AA_Koordinatenreferenzsystemangaben"),
              LAMBDA e : e.tag.ns = AxUri)

\* The declarations whose ax:standard has exactly the text 'true'.
Authoritative ==
    SelectSeq(Declarations, LAMBDA e :
        /\ ChildrenNamed(e, "standard") # <<>>
        /\ ChildrenNamed(e, "standard")[1].text = <<"t","r","u","e">>)

\* The zone digits of a declaration whose ax:crs href is
\* urn:adv:crs:ETRS89_UTM<digits>; no digits for any other declaration.
DeclaredZone(e) ==
    LET crs == ChildrenNamed(e, "crs")
        head == <<"u","r","n",":","a","d","v",":","c","r","s",":",
                  "E","T","R","S","8","9","_","U","T","M">>
        href == crs[1].attrib[XLINK_HREF]
    IN  IF /\ crs # <<>>
           /\ XLINK_HREF \in DOMAIN crs[1].attrib
           /\ Len(href) > Len(head)
           /\ SubSeq(href, 1, Len(head)) = head
           /\ \A i \in (Len(head) + 1)..Len(href) : href[i] \in Digit
        THEN SubSeq(href, Len(head) + 1, Len(href))
        ELSE <<>>

\* extract_original_crs_from_xml has run: it gave the CRS name or failed.
CrsStepRan == crs_name # Unset \/ (pc = "failed" /\ gdf_buf = Unset)

\* C16: only the first declaration in document order whose ax:standard is
\* exactly 'true' counts: when its ax:crs href is urn:adv:crs:ETRS89_UTM<n>
\* the CRS name is 'ETRS89 / UTM zone <n>N', whatever the declarations
\* with another flag and the later 'true' declarations hold; without any
\* 'true' declaration the CRS name is None.
C16_FirstTrueDeclarationDecides ==
    (CrsStepRan /\ AxUri # "") =>
        LET trues == Authoritative
        IN  /\ trues = <<>> => crs_name = None
            /\ (trues # <<>> /\ DeclaredZone(trues[1]) # <<>>) =>
                  crs_name =
                      <<"E","T","R","S","8","9"," ","/"," ","U","T","M"," ",
                        "z","o","n","e"," ">>
                          \o DeclaredZone(trues[1]) \o <<"N">>

\* UTM33 'false', UTM32 'true', UTM33 'true': the name is that of zone 32.
C16_Witness ==
    /\ crs_name # Unset
    /\ AxUri # ""
    /\ Len(Declarations) = 3
    /\ Len(Authoritative) = 2
    /\ Authoritative[1] = Declarations[2]
    /\ DeclaredZone(Declarations[1]) = <<"3","3">>
    /\ DeclaredZone(Declarations[3]) = <<"3","3">>
    /\ crs_name = CanonicalCrsName(32)

\* The declarations of the document with a known schema-version URI.
KnownUris == {"http://www.adv-online.de/namespaces/adv/gid/7.1",
              "http://www.adv-online.de/namespaces/adv/gid/6.0"}

Declared == StartNs(doc)

\* The URIs the document declares for a prefix.
DeclaredFor(prefix) ==
    {Declared[i][2] : i \in {k \in 1..Len(Declared) : Declared[k][1] = prefix}}

\* C17: the resolved mapping has no empty-prefix key; every declared
\* non-empty prefix other than 'ax' is a key and maps to a URI declared
\* for it; and when any declaration, default or prefixed, has a known
\* schema-version URI, 'ax' is a key and maps to a known schema-version URI.
C17_NamespaceMapping ==
    pc = "parse_xml_file" =>
        /\ "" \notin DOMAIN namespaces
        /\ \A i \in 1..Len(Declared) :
              Declared[i][1] \notin {"", "ax"} =>
                  /\ Declared[i][1] \in DOMAIN namespaces
                  /\ namespaces[Declared[i][1]] \in DeclaredFor(Declared[i][1])
        /\ (\E i \in 1..Len(Declared) : Declared[i][2] \in KnownUris) =>
              /\ "ax" \in DOMAIN namespaces
              /\ namespaces["ax"] \in KnownUris

\* The prefixed declarations with a known schema-version URI.
PrefixedMatches ==
    SelectSeq(Declared, LAMBDA d : d[1] # "" /\ d[2] \in KnownUris)

\* C18: with several declarations of known schema-version URIs, of which
\* at least one is prefixed, 'ax' maps to the URI of the last prefixed one
\* in declaration order, also when the default namespace has a different
\* known schema-version URI.
C18_LastPrefixedMatchWins ==
    (/\ pc = "parse_xml_file"
     /\ Cardinality({i \in 1..Len(Declared) : Declared[i][2] \in KnownUris}) > 1
     /\ PrefixedMatches # <<>>) =>
        /\ "ax" \in DOMAIN namespaces
        /\ namespaces["ax"] = PrefixedMatches[Len(PrefixedMatches)][2]

\* The features of type t in the containers of one kind, in document
\* order.
FeaturesIn(t, IsContainer(_)) ==
    Flatten(MapSeq(SelectSeq(CollectionChildren(xml_root), IsContainer),
        LAMBDA c : SelectSeq(c.children,
                       LAMBDA e : e.tag = [ns |-> AxUri, name |-> t])))

\* The path an extractor is to take: wfs:member when it holds a feature of
\* the type, gml:featureMember otherwise.
ChosenPath(t) ==
    IF FeaturesIn(t, IsWfsMember) # <<>> THEN FeaturesIn(t, IsWfsMember)
    ELSE FeaturesIn(t, IsGmlFeatureMember)

IdColumn(t) ==
    <<"ax_flurstueck_id", "ax_person_id", "ax_buchungsblattbezirk_id",
      "ax_buchungsblatt_id", "ax_anschrift_id", "ax_namensnummer_id",
      "ax_buchungsstelle_id">>[EntityIndex(t)]

\* The place of the element with a gml:id in a list of elements.
PlaceOf(id, elements) ==
    CHOOSE i \in 1..Len(elements) : AttribGet(elements[i], GML_ID) = id

\* C19: each extractor reads the wfs:member path when that path matches an
\* element of its type and the gml:featureMember path only when it does
\* not: with a gml:id on every element of the chosen path, the rows it
\* assembles are those of the elements of that one path, one each and in
\* document order, never of both paths; the rows of the final Parcel table
\* are in that order too.
C19_PrimaryPathElseLegacy ==
    \A t \in EntitySet :
        TableOf(t) # Unset =>
            LET chosen == ChosenPath(t)
                rows == AssembledRows(t)
            IN  (\A i \in 1..Len(chosen) : HasGmlId(chosen[i])) =>
                    /\ Len(rows) = Len(chosen)
                    /\ \A i \in 1..Len(rows) :
                          rows[i][IdColumn(t)] = AttribGet(chosen[i], GML_ID)
                    /\ \A n, m \in 1..Len(Rows(TableOf(t))) :
                          n < m =>
                             PlaceOf(Rows(TableOf(t))[n][IdColumn(t)], chosen)
                               < PlaceOf(Rows(TableOf(t))[m][IdColumn(t)],
                                         chosen)

\* A type has a feature on each path and its table holds the row of the
\* wfs:member feature alone.
C19_Witness ==
    \E t \in EntitySet \ {"AX_Flurstueck"} :
        /\ TableOf(t) # Unset
        /\ Len(FeaturesIn(t, IsWfsMember)) = 1
        /\ Len(FeaturesIn(t, IsGmlFeatureMember)) = 1
        /\ Len(Rows(TableOf(t))) = 1
        /\ Rows(TableOf(t))[1][IdColumn(t)]
              = AttribGet(FeaturesIn(t, IsWfsMember)[1], GML_ID)

\* The matched elements of a type that give a row: those with a gml:id
\* that is not empty.
MatchedWithRow(t) ==
    SelectSeq(EntityElements(xml_root, t, namespaces),
              LAMBDA e : Truthy(AttribGet(e, GML_ID)))

\* The element has a child of that name whose text is not a number.
HasUnparseable(e, name) ==
    /\ ChildrenNamed(e, name) # <<>>
    /\ ~IsNumber(ChildrenNamed(e, name)[1].text)

\* The share of a name entry divides by zero.
HasZeroNenner(e) ==
    /\ IsNumber(AnteilText(e, "zaehler"))
    /\ IsNumber(AnteilText(e, "nenner"))
    /\ DecimalValue(AnteilText(e, "nenner")) = 0

\* C20: a numeric text that cannot be parsed is a local, non-fatal defect:
\* the Parcel extractor completes and gives the area None for an
\* ax:amtlicheFlaeche that is not a number, and the Name Entry extractor
\* completes with a row for every element with a gml:id also when an
\* ax:zaehler or ax:nenner is not a number (no share dividing by zero).
C20_UnparseableNumberIsNonFatal ==
    /\ (ExtractorRan("AX_Flurstueck")
          /\ EntityElements(xml_root, "AX_Flurstueck", namespaces) # <<>>) =>
          /\ ax_flurstueck # Unset
          /\ \A i \in 1..Len(MatchedWithRow("AX_Flurstueck")) :
                HasUnparseable(MatchedWithRow("AX_Flurstueck")[i],
                               "amtlicheFlaeche") =>
                    AssembledRows("AX_Flurstueck")[i].amtliche_flaeche = None
    /\ (ExtractorRan("AX_Namensnummer")
          /\ EntityElements(xml_root, "AX_Namensnummer", namespaces) # <<>>
          /\ \A i \in 1..Len(MatchedWithRow("AX_Namensnummer")) :
                ~HasZeroNenner(MatchedWithRow("AX_Namensnummer")[i])) =>
          /\ ax_namensnummer # Unset
          /\ Len(Rows(ax_namensnummer))
                = Len(MatchedWithRow("AX_Namensnummer"))

\* The steps of construction in their order, and the place of a step.
Steps ==
    <<"get_namespaces", "parse_xml_file", "extract_original_crs_from_xml",
      "get_flurstueck_geometry", "remove_broken_members",
      "get_ax_flurstueck_data", "get_ax_person_data",
      "get_ax_buchungsblattbezirk_data", "get_ax_buchungsblatt_data",
      "get_ax_anschrift_data", "get_ax_namensnummer_data",
      "get_ax_buchungsstelle_data", "done">>
StepIndex(p) == CHOOSE i \in 1..Len(Steps) : Steps[i] = p

\* The place of the extractor of a type among the steps.
ExtractorIndex(t) == 5 + EntityIndex(t)

\* The CRS name the document declares: that of its first 'true'
\* declaration, None without one.
DeclaredCrsName ==
    IF Authoritative = <<>> THEN None
    ELSE <<"E","T","R","S","8","9"," ","/"," ","U","T","M"," ",
           "z","o","n","e"," ">>
             \o DeclaredZone(Authoritative[1]) \o <<"N">>

\* What holds in every state of a construction: an error and only an error
\* ends it without an object; a table is set exactly when its extractor
\* has completed, so after a failure the tables of the failing and of all
\* later steps are not set; a finished construction has all seven tables,
\* no raw bytes, no interim geometry table, and the CRS name of its
\* document.
AllOrNothing ==
    /\ pc = "failed" <=> ~error.ok
    /\ pc # "failed" =>
          \A t \in EntitySet :
              TableOf(t) # Unset <=> StepIndex(pc) > ExtractorIndex(t)
    /\ \A t, u \in EntitySet :
          (EntityIndex(t) < EntityIndex(u) /\ TableOf(u) # Unset) =>
              TableOf(t) # Unset
    /\ (\E t \in EntitySet : TableOf(t) # Unset) =>
          crs_name # Unset /\ gdf_buf # Unset /\ xml_bytes = None
    /\ pc = "done" =>
          /\ \A t \in EntitySet : TableOf(t) # Unset
          /\ xml_bytes = None
          /\ gdf_buf = None
          /\ crs_name = DeclaredCrsName
          /\ current_crs = crs_name

\* A step of construction: the step whose turn it is completes and hands
\* over to the next one in the order, or fails and ends the sequence.
InOrder ==
    /\ pc \notin {"failed", "done"}
    /\ pc' = "failed" \/ StepIndex(pc') = StepIndex(pc) + 1
    /\ pc' = "failed" => \A t \in EntitySet : TableOf(t)' = TableOf(t)

\* C21: construction is all-or-nothing in one fixed order (namespaces,
\* tree, CRS, then the seven tables from Parcel to Booking Entry), each
\* step run at most once; the first error ends the sequence, no later step
\* runs and no object with tables comes to be; on success all seven
\* tables are set, xml_bytes and gdf_buf are cleared, and crs_name is the
\* value extracted for the document.
C21_AllOrNothingInFixedOrder == []AllOrNothing /\ [][InOrder]_vars

\* A construction that failed in the middle of the tables: the tables up
\* to Address are set, Name Entry failed, Booking Entry never ran.
C21_Witness ==
    /\ pc = "failed"
    /\ ax_anschrift # Unset
    /\ ax_namensnummer = Unset
    /\ ax_buchungsstelle = Unset

\* The containers of the document as it came (wfs:member and
\* gml:featureMember) that hold a feature of type t with that gml:id.
ContainersOf(t, id) ==
    SelectSeq(CollectionChildren(Parsed(doc)), LAMBDA c :
        /\ IsWfsMember(c) \/ IsGmlFeatureMember(c)
        /\ \E k \in 1..Len(c.children) :
              /\ c.children[k].tag = [ns |-> AxUri, name |-> t]
              /\ AttribGet(c.children[k], GML_ID) = id)

\* C22: after a successful construction no row of any of the seven tables
\* comes from a feature whose container, wfs:member or gml:featureMember,
\* holds a gml:pos text of exactly one token, also in a document that has
\* containers of both kinds.
C22_NoRowFromBrokenContainer ==
    pc = "done" =>
        \A t \in EntitySet :
            \A i \in 1..Len(Rows(TableOf(t))) :
                LET from == ContainersOf(t, Rows(TableOf(t))[i][IdColumn(t)])
                IN  \A k \in 1..Len(from) : ~HasSingleTokenPos(from[k])

\* C23: remove_broken_members is idempotent: applied to the tree its first
\* application left, it detaches no further element.
C23_SanitizerIdempotent ==
    pc = "get_ax_flurstueck_data" =>
        remove_broken_members(xml_root, namespaces) = xml_root

\* The foreign keys: the referencing type, its column, the child whose
\* xlink:href is the reference, and the referenced type.
ForeignKeys ==
    {<<"AX_Flurstueck", "ax_buchungsstelle_id", "istGebucht",
       "AX_Buchungsstelle">>,
     <<"AX_Person", "ax_anschrift_id", "hat", "AX_Anschrift">>,
     <<"AX_Namensnummer", "ax_person_id", "benennt", "AX_Person">>,
     <<"AX_Namensnummer", "ax_buchungsblatt_id", "istBestandteilVon",
       "AX_Buchungsblatt">>,
     <<"AX_Buchungsstelle", "ax_buchungsblatt_id", "istBestandteilVon",
       "AX_Buchungsblatt">>}

\* The matched elements of type t a row of its table stands for: those
\* with the row's id as gml:id, written with or without the prefix.
ElementsOfRow(t, row) ==
    SelectSeq(MatchedWithRow(t), LAMBDA e :
        row[IdColumn(t)] # None
        /\ WithoutIdPrefix(AttribGet(e, GML_ID))
              = WithoutIdPrefix(row[IdColumn(t)]))

\* The element refers to the other one through its child of that name.
RefersTo(e, child, g) ==
    /\ ChildrenNamed(e, child) # <<>>
    /\ XLINK_HREF \in DOMAIN ChildrenNamed(e, child)[1].attrib
    /\ HasGmlId(g)
    /\ WithoutIdPrefix(ChildrenNamed(e, child)[1].attrib[XLINK_HREF])
          = WithoutIdPrefix(AttribGet(g, GML_ID))

\* C24: after construction a foreign key can be joined: when the element
\* of a row refers to an element that has a row in its own table, the
\* foreign-key value of the one row equals the id of the other, for ids
\* written with and without the urn:adv:oid: prefix.
C24_ForeignKeysJoinable ==
    pc = "done" =>
        \A fk \in ForeignKeys :
            LET from == Rows(TableOf(fk[1]))
                to == Rows(TableOf(fk[4]))
            IN  \A i \in 1..Len(from), k \in 1..Len(to) :
                    LET es == ElementsOfRow(fk[1], from[i])
                        gs == ElementsOfRow(fk[4], to[k])
                    IN  (\E n \in 1..Len(es), m \in 1..Len(gs) :
                            RefersTo(es[n], fk[3], gs[m])) =>
                            from[i][fk[2]] = to[k][IdColumn(fk[4])]

\* The key structures of a ledger element: the
\* AX_Buchungsblattbezirk_Schluessel children of its buchungsblattbezirk
\* children, in document order.
KeyStructures(blatt) ==
    Flatten(MapSeq(ChildrenNamed(blatt, "buchungsblattbezirk"),
        LAMBDA b : ChildrenNamed(b, "AX_Buchungsblattbezirk_Schluessel")))

\* The text of the child of that name in the key structure of a ledger
\* element, None without the key structure or without the child.
KeyText(blatt, name) ==
    IF KeyStructures(blatt) = <<>> THEN None
    ELSE IF ChildrenNamed(KeyStructures(blatt)[1], name) = <<>> THEN None
    ELSE ChildrenNamed(KeyStructures(blatt)[1], name)[1].text

\* C25: every Ledger row holds the texts of the land and bezirk children
\* of its element's key structure in the state and district columns; its
\* combined key is the state text followed by the district text when both
\* children are there with non-empty text, in either order, and absent
\* when the key structure or one of the two children is missing.
C25_CombinedKeyOfLedgerRow ==
    ax_buchungsblatt # Unset =>
        LET blaetter == ChosenPath("AX_Buchungsblatt")
            rows == Rows(ax_buchungsblatt)
        IN  /\ Len(rows) = Len(blaetter)
            /\ \A i \in 1..Len(rows) :
                  LET land == KeyText(blaetter[i], "land")
                      bezirk == KeyText(blaetter[i], "bezirk")
                  IN  /\ rows[i].land = land
                      /\ rows[i].bezirk = bezirk
                      /\ rows[i].schluessel_gesamt =
                            IF Truthy(land) /\ Truthy(bezirk)
                            THEN land \o bezirk ELSE None

\* A Ledger row of an element whose key structure has the district child
\* before the state child, with the combined key in the order state,
\* district.
C25_Witness ==
    /\ ax_buchungsblatt # Unset
    /\ \E i \in 1..Len(Rows(ax_buchungsblatt)) :
          LET blatt == ChosenPath("AX_Buchungsblatt")[i]
          IN  /\ KeyStructures(blatt) # <<>>
              /\ Len(KeyStructures(blatt)[1].children) = 2
              /\ KeyStructures(blatt)[1].children[1].tag.name = "bezirk"
              /\ KeyStructures(blatt)[1].children[2].tag.name = "land"
              /\ Rows(ax_buchungsblatt)[i].schluessel_gesamt = LAND \o BEZIRK

=============================================================================
